---------------------------- MODULE Spec2Model ----------------------------
(***************************************************************************)
(* A model of the pulseblaster package: the unroller of instruction lists  *)
(* (data_structures.unroll_duration_flags), the repeating-pulse compiler   *)
(* (generate_pulses.generate_repeating_pulses) with its synchronizer and   *)
(* the Signal constructor, the parser of program texts                     *)
(* (read_code.code_to_instructions) and the upload of a program to the     *)
(* board (device.PulseBlaster.program).                                    *)
(*                                                                         *)
(* The specifications share the module's variables.  UnrollSpec runs the   *)
(* unroller's while loop, one visited instruction per step, on every       *)
(* instruction list of a bounded length.  GenSpec runs the compiler, one   *)
(* simulated cycle per step, on bounded signal lists.  SignalSpec          *)
(* constructs one Signal, SyncSpec runs the synchronizer and the           *)
(* quantizer.  ParseSpec parses a program text of a bounded number of      *)
(* lines and unrolls the instruction list it yields.  DeviceSpec uploads   *)
(* an instruction list to the board (device.PulseBlaster.program), one     *)
(* device call per step.  LoopLiveSpec and NestSpec run the unroller on    *)
(* the lists without JSR and on the properly nested lists of loops,        *)
(* CeilingSpec runs the synchronizer with a t_max of the caller's.  The    *)
(* variables of the component a specification does not run stay at their   *)
(* idle values.                                                            *)
(***************************************************************************)
EXTENDS Integers, Sequences, FiniteSets, TLC

VARIABLES
    mode,           \* which component this behaviour runs: "unroll", "gen",
                    \* "signal", "sync", "parse" or "device"
    \* ---- unroll_duration_flags (data_structures.py) ----
    instructions,   \* the instruction list handed to the unroller
    idx,            \* address of the next instruction to visit
    _duration,      \* durations recorded so far
    _flags,         \* flags recorded so far
    _addresses,     \* addresses recorded so far
    subroutines,    \* return stack: addresses of the JSRs not yet returned from
    loops,          \* loop-frame stack: [idx_start, iterations_left]
    branch_index,   \* position the final BRANCH returns to, or None
    status,         \* "idle", "running", "returned" (normal return) or "raised"
    \* ---- generate_repeating_pulses (generate_pulses.py) ----
    pc,             \* the compiler: "idle", "call", "cycles", "done" or "raised";
                    \* a caller of the synchronizer: "init", "constructed",
                    \* "synced", "sync_raised" or "quantized"
    signals,        \* the caller's primary signals
    masking_signals,            \* the caller's masking signals
    min_instruction_len,        \* the quantum [ns], coarsened by the gcd
    duration,       \* synchronized duration [ns]
    nr_cycles,      \* number of cycles the loop simulates
    frequencies_rescaled,       \* the synchronizer's frequencies, as periods [ns]
    pulses_cycle_units,         \* the primary pulses, in quanta
    masking_pulses_cycle_units, \* the masking pulses, in quanta
    instruction_cycle,          \* the loop variable
    pulse_elapsed_cycles,       \* per primary pulse: quanta since its period began
    masking_pulse_elapsed_cycles,
    t,              \* run lengths [ns] of the states in c
    c,              \* the distinct consecutive channel states
    \* ---- code_to_instructions (read_code.py) ----
    code,           \* the program text, one entry per line
    error,          \* what the exception that was raised names, or NoError
    \* ---- PulseBlaster.program (device.py) ----
    position,       \* the device call that program makes next, or "idle", "exit"
    calls           \* the device calls made so far, with their return codes

unrollVars == << instructions, idx, _duration, _flags, _addresses,
                 subroutines, loops, branch_index, status >>

genVars == << pc, signals, masking_signals, min_instruction_len, duration, nr_cycles,
              frequencies_rescaled, pulses_cycle_units, masking_pulses_cycle_units, instruction_cycle,
              pulse_elapsed_cycles, masking_pulse_elapsed_cycles, t, c >>

parseVars == << code, error >>

deviceVars == << position, calls >>

vars == << mode, unrollVars, genVars, parseVars, deviceVars >>

-----------------------------------------------------------------------------
(* Bounds of the model.                                                    *)

MaxLen == 3         \* longest instruction list the unroller is run on
MaxSteps == 8       \* longest timeline the unroller is followed for

-----------------------------------------------------------------------------
(* Helpers on sequences.                                                   *)

None == -1          \* Python's None where the other values are naturals

\* What an exception tells its catcher: the kind of fault and the line number
\* of the text that its message names (None when it names no line).
Raised(kind, line) == [ kind |-> kind, line |-> line ]

NoError == Raised("none", None)

Last(s) == s[Len(s)]

Front(s) == SubSeq(s, 1, Len(s) - 1)

\* list.index(x) of Python, 0-based; only used when x is in the list
IndexOf(s, x) == (CHOOSE i \in 1..Len(s) : s[i] = x /\ \A j \in 1..(i - 1) : s[j] # x) - 1

Contains(s, x) == \E i \in 1..Len(s) : s[i] = x

-----------------------------------------------------------------------------
(* Instructions.                                                           *)

Opcode == { "CONTINUE", "STOP", "LOOP", "END_LOOP", "JSR", "RTS", "BRANCH",
            "LONG_DELAY", "WAIT" }

Instruction(flags, dur, opcode, inst_data) ==
    [ flags |-> flags, duration |-> dur, opcode |-> opcode, inst_data |-> inst_data ]

Loop(idx_start, iterations_left) ==
    [ idx_start |-> idx_start, iterations_left |-> iterations_left ]

\* The instruction at a 0-based address.
At(instrs, a) == instrs[a + 1]

InRange(instrs, a) == 0 <= a /\ a < Len(instrs)


-----------------------------------------------------------------------------
(* The instruction lists the unroller is run on.  Control flow reads only  *)
(* the opcode and the operand, so the duration and the flags of an         *)
(* instruction are fixed by its address (distinct per address, which lets  *)
(* a recorded step be traced back to its instruction).                     *)

NrFlags == 2

DurationAt(a) == 100 * (a + 1)

FlagsAt(a) == [ ch \in 1..NrFlags |-> IF ch = 1 THEN a % 2 ELSE (a \div 2) % 2 ]

Operands == (-1)..MaxLen

\* opcodes whose operand the unroller reads
OperandOpcodes == { "JSR", "LOOP", "BRANCH" }

OpChoices ==
    { << op, 0 >> : op \in Opcode \ OperandOpcodes }
        \cup (OperandOpcodes \X Operands)

\* the instruction list with the opcodes and operands ops[1], ..., ops[n]
Program(ops, n) ==
    [ i \in 1..n |-> Instruction(FlagsAt(i - 1), DurationAt(i - 1), ops[i][1], ops[i][2]) ]

-----------------------------------------------------------------------------
(* unroll_duration_flags: the state after the function's prologue.         *)

\* the device's variables while no program is uploaded
DeviceIdle ==
    /\ position = "idle"
    /\ calls = << >>

\* the compiler's variables while the compiler is not running
GenIdle ==
    /\ pc = "idle"
    /\ signals = << >>
    /\ masking_signals = << >>
    /\ min_instruction_len = 0
    /\ duration = 0
    /\ nr_cycles = 0
    /\ frequencies_rescaled = << >>
    /\ pulses_cycle_units = << >>
    /\ masking_pulses_cycle_units = << >>
    /\ instruction_cycle = 0
    /\ pulse_elapsed_cycles = << >>
    /\ masking_pulse_elapsed_cycles = << >>
    /\ t = << >>
    /\ c = << >>

UnrollInit ==
    /\ mode = "unroll"
    /\ DeviceIdle
    /\ GenIdle
    /\ \E n \in 0..MaxLen : \E ops \in [ 1..n -> OpChoices ] :
            instructions = Program(ops, n)
    /\ idx = 0
    /\ _duration = << >>
    /\ _flags = << >>
    /\ _addresses = << >>
    /\ subroutines = << >>
    /\ loops = << >>
    /\ branch_index = None
    /\ status = IF Len(instructions) = 0 THEN "raised" ELSE "running"
    /\ code = << >>
    /\ error = IF Len(instructions) = 0
               THEN Raised("Instruction list cannot be empty", None)
               ELSE NoError

\* a list holds a JSR
HasJSR(instrs) == \E k \in 1..Len(instrs) : instrs[k].opcode = "JSR"

\* the longest timeline a list without a JSR is followed for: far more than
\* any such list of the model records
MaxLoopSteps == (MaxLen + 1) ^ MaxLen

\* the model's bound on the timeline of a list
StepBound(instrs) == IF HasJSR(instrs) THEN MaxSteps ELSE MaxLoopSteps

\* The loop condition holds and the timeline is still within the model's bound.
Visiting(op) ==
    /\ status = "running"
    /\ InRange(instructions, idx)
    /\ (mode # "gen") => Len(_addresses) < StepBound(instructions)
    /\ At(instructions, idx).opcode \in op

\* Every iteration starts by recording the instruction it visits.
Record ==
    /\ _duration' = Append(_duration, At(instructions, idx).duration)
    /\ _flags' = Append(_flags, At(instructions, idx).flags)
    /\ _addresses' = Append(_addresses, idx)

\* a range check that lets the address one past the end through
JSRTargetOkOffByOne(instrs, target) == 0 <= target /\ target <= Len(instrs)

\* a range check that also refuses a jump onto a JSR
JSRTargetNotJSR(instrs, target) ==
    InRange(instrs, target) /\ At(instrs, target).opcode # "JSR"

JSRTargetOk(instrs, target) == InRange(instrs, target)

VisitJSR ==
    /\ Visiting({"JSR"})
    /\ Record
    /\ IF JSRTargetOk(instructions, At(instructions, idx).inst_data)
       THEN /\ subroutines' = Append(subroutines, idx)
            /\ idx' = At(instructions, idx).inst_data
            /\ status' = "running"
            /\ UNCHANGED error
       ELSE /\ status' = "raised"
            /\ error' = Raised("JSR target outside instruction range", None)
            /\ UNCHANGED << subroutines, idx >>
    /\ UNCHANGED << mode, deviceVars, genVars, code, instructions, loops, branch_index >>

\* a return stack popped at the wrong end (first in, first out)
PopReturnFIFO(stack) == [ address |-> Head(stack), rest |-> Tail(stack) ]

\* subroutines.pop(): the address that is removed and the stack that is left
PopReturn(stack) == [ address |-> Last(stack), rest |-> Front(stack) ]

VisitRTS ==
    /\ Visiting({"RTS"})
    /\ Record
    /\ IF subroutines # << >>
       THEN /\ idx' = PopReturn(subroutines).address + 1
            /\ subroutines' = PopReturn(subroutines).rest
            /\ status' = "running"
            /\ UNCHANGED error
       ELSE /\ status' = "raised"
            /\ error' = Raised("RTS without a matching JSR", None)
            /\ UNCHANGED << subroutines, idx >>
    /\ UNCHANGED << mode, deviceVars, genVars, code, instructions, loops, branch_index >>

\* the loop-frame stack after a LOOP at address a with operand n is visited
EnterLoop(stack, a, n) ==
    IF Len(stack) = 0 \/ Last(stack).idx_start # a
    THEN Append(stack, Loop(a, n))
    ELSE stack

VisitLOOP ==
    /\ Visiting({"LOOP"})
    /\ Record
    /\ IF At(instructions, idx).inst_data <= 0
       THEN /\ status' = "raised"
            /\ error' = Raised("LOOP iterations must be positive", None)
            /\ UNCHANGED << loops, idx >>
       ELSE /\ loops' = EnterLoop(loops, idx, At(instructions, idx).inst_data)
            /\ idx' = idx + 1
            /\ status' = "running"
            /\ UNCHANGED error
    /\ UNCHANGED << mode, deviceVars, genVars, code, instructions, subroutines, branch_index >>

\* an END_LOOP that tests the count before decrementing it: one iteration too many
EndLoopLate(stack, a) ==
    LET left == Last(stack).iterations_left - 1
    IN  IF Last(stack).iterations_left = 0
        THEN [ loops |-> Front(stack), idx |-> a + 1 ]
        ELSE [ loops |-> Append(Front(stack), Loop(Last(stack).idx_start, left)),
               idx |-> Last(stack).idx_start ]

\* an END_LOOP that never counts down: control always jumps back
EndLoopForever(stack, a) == [ loops |-> stack, idx |-> Last(stack).idx_start ]

\* an END_LOOP that counts down the outermost open frame instead of the top one
EndLoopOutermost(stack, a) ==
    LET left == Head(stack).iterations_left - 1
    IN  IF left = 0
        THEN [ loops |-> Tail(stack), idx |-> a + 1 ]
        ELSE [ loops |-> << Loop(Head(stack).idx_start, left) >> \o Tail(stack),
               idx |-> Head(stack).idx_start ]

\* END_LOOP at address a with a non-empty loop-frame stack: the top frame is
\* decremented in place; at zero it is popped and control advances, otherwise
\* control jumps back to the frame's start.
EndLoop(stack, a) ==
    LET left == Last(stack).iterations_left - 1
    IN  IF left = 0
        THEN [ loops |-> Front(stack), idx |-> a + 1 ]
        ELSE [ loops |-> Append(Front(stack), Loop(Last(stack).idx_start, left)),
               idx |-> Last(stack).idx_start ]

VisitEND_LOOP ==
    /\ Visiting({"END_LOOP"})
    /\ Record
    /\ IF loops = << >>
       THEN /\ status' = "raised"
            /\ error' = Raised("END_LOOP without a matching LOOP", None)
            /\ UNCHANGED << loops, idx >>
       ELSE /\ loops' = EndLoop(loops, idx).loops
            /\ idx' = EndLoop(loops, idx).idx
            /\ status' = "running"
            /\ UNCHANGED error
    /\ UNCHANGED << mode, deviceVars, genVars, code, instructions, subroutines, branch_index >>

\* STOP: break, then the return statement.
VisitSTOP ==
    /\ Visiting({"STOP"})
    /\ Record
    /\ status' = "returned"
    /\ UNCHANGED << mode, deviceVars, genVars, parseVars, instructions, idx, subroutines, loops,
                    branch_index >>

\* a lookup that misses the BRANCH's own step
BranchIndexBeforeSelf(addresses, target) ==
    IF Contains(Front(addresses), target) THEN IndexOf(Front(addresses), target) ELSE None

\* a lookup that answers with the target address instead of its position
BranchIndexIsAddress(addresses, target) ==
    IF Contains(addresses, target) THEN target ELSE None

\* branch_index for a BRANCH to target, given the addresses recorded so far
\* (the BRANCH's own address included)
BranchIndex(addresses, target) ==
    IF Contains(addresses, target) THEN IndexOf(addresses, target) ELSE None

\* BRANCH: branch_index is looked up in the recorded addresses; break; return.
VisitBRANCH ==
    /\ Visiting({"BRANCH"})
    /\ Record
    /\ branch_index' = BranchIndex(_addresses', At(instructions, idx).inst_data)
    /\ status' = "returned"
    /\ UNCHANGED << mode, deviceVars, genVars, parseVars, instructions, idx, subroutines, loops >>

\* CONTINUE, LONG_DELAY, WAIT: the else branch.
VisitPlain ==
    /\ Visiting({"CONTINUE", "LONG_DELAY", "WAIT"})
    /\ Record
    /\ idx' = idx + 1
    /\ UNCHANGED << mode, deviceVars, genVars, parseVars, instructions, subroutines, loops,
                    branch_index, status >>

\* The loop condition fails: control ran past the last address (or before the
\* first); the function returns what it recorded.
RunOff ==
    /\ status = "running"
    /\ ~InRange(instructions, idx)
    /\ status' = "returned"
    /\ UNCHANGED << mode, deviceVars, genVars, parseVars, instructions, idx, _duration, _flags, _addresses,
                    subroutines, loops, branch_index >>

UnrollNext ==
    \/ VisitJSR
    \/ VisitRTS
    \/ VisitLOOP
    \/ VisitEND_LOOP
    \/ VisitSTOP
    \/ VisitBRANCH
    \/ VisitPlain
    \/ RunOff

UnrollSpec == UnrollInit /\ [][UnrollNext]_vars

\* the unroller on the lists that hold no JSR
LoopInit == UnrollInit /\ ~HasJSR(instructions)

LoopNext ==
    \/ VisitRTS
    \/ VisitLOOP
    \/ VisitEND_LOOP
    \/ VisitSTOP
    \/ VisitBRANCH
    \/ VisitPlain
    \/ RunOff

\* the number of LOOPs open after the first k instructions of a list
NestingDepth(instrs, k) ==
    Cardinality({ i \in 1..k : instrs[i].opcode = "LOOP" })
        - Cardinality({ i \in 1..k : instrs[i].opcode = "END_LOOP" })

\* every END_LOOP of the list closes a LOOP and every LOOP is closed
ProperlyNested(instrs) ==
    /\ \A k \in 1..Len(instrs) : NestingDepth(instrs, k) >= 0
    /\ NestingDepth(instrs, Len(instrs)) = 0

\* the instructions of the lists of nested loops
NestOps == { << "CONTINUE", 0 >>, << "END_LOOP", 0 >> } \cup ({ "LOOP" } \X (1..MaxLen))

\* the unroller on the properly nested lists of LOOPs with positive counts,
\* END_LOOPs and plain instructions, long enough for a loop with a body
\* inside a loop
NestInit ==
    /\ mode = "unroll"
    /\ DeviceIdle
    /\ GenIdle
    /\ \E n \in 0..(MaxLen + 2) : \E ops \in [ 1..n -> NestOps ] :
            /\ ProperlyNested(Program(ops, n))
            /\ instructions = Program(ops, n)
    /\ idx = 0
    /\ _duration = << >>
    /\ _flags = << >>
    /\ _addresses = << >>
    /\ subroutines = << >>
    /\ loops = << >>
    /\ branch_index = None
    /\ status = IF Len(instructions) = 0 THEN "raised" ELSE "running"
    /\ code = << >>
    /\ error = IF Len(instructions) = 0
               THEN Raised("Instruction list cannot be empty", None)
               ELSE NoError

NestNext ==
    \/ VisitLOOP
    \/ VisitEND_LOOP
    \/ VisitPlain
    \/ RunOff

NestSpec == NestInit /\ [][NestNext]_vars

\* the while loop runs on: an iteration that can be made is made
LoopLiveSpec == LoopInit /\ [][LoopNext]_vars /\ WF_vars(LoopNext)


-----------------------------------------------------------------------------
(* Arithmetic of the compiler.  Times are integers in ns.  A frequency is an *)
(* integer number of tenths of a hertz, so that its period 1e9 / f is the   *)
(* fraction FrequencyDen * NsPerSecond / frequency.  A rescaled frequency   *)
(* 1e9 / p, with p an integer number of ns, is carried as its period p.     *)
(* The floating-point operations are taken as exact.                        *)

NsPerSecond == 1000000000

RECURSIVE Gcd(_, _)
\* math.gcd of two naturals
Gcd(a, b) == IF b = 0 THEN a ELSE Gcd(b, a % b)

RECURSIVE GcdAll(_)
\* math.gcd(*values)
GcdAll(values) == IF values = << >> THEN 0 ELSE Gcd(Head(values), GcdAll(Tail(values)))

Lcm(a, b) == IF a = 0 \/ b = 0 THEN 0 ELSE (a \div Gcd(a, b)) * b

RECURSIVE LcmAll(_)
\* math.lcm(*values)
LcmAll(values) == IF values = << >> THEN 1 ELSE Lcm(Head(values), LcmAll(Tail(values)))

RECURSIVE MinAll(_)
\* min(values) of a non-empty list
MinAll(values) ==
    IF Len(values) = 1 THEN Head(values)
    ELSE LET m == MinAll(Tail(values))
         IN  IF Head(values) < m THEN Head(values) ELSE m

\* int(round(n / d)) for n >= 0, d > 0: Python rounds halves to the even neighbour
Round(n, d) ==
    LET q == n \div d
        r == n % d
    IN  IF 2 * r < d THEN q
        ELSE IF 2 * r > d THEN q + 1
        ELSE IF q % 2 = 0 THEN q ELSE q + 1

round_to_nearest_n_ns(value, ns_round) == Round(value, ns_round) * ns_round

\* the unit of a frequency: 1 / FrequencyDen Hz
FrequencyDen == 10

\* the whole ns of the period 1e9 / f, and what is left, in units of 1 / f ns
PeriodQuot(f) == FrequencyDen * (NsPerSecond \div f) + ((FrequencyDen * (NsPerSecond % f)) \div f)

PeriodRem(f) == (FrequencyDen * (NsPerSecond % f)) % f

\* int(round(1 / f * 1e9))
PeriodRound(f) ==
    IF 2 * PeriodRem(f) < f THEN PeriodQuot(f)
    ELSE IF 2 * PeriodRem(f) > f THEN PeriodQuot(f) + 1
    ELSE IF PeriodQuot(f) % 2 = 0 THEN PeriodQuot(f) ELSE PeriodQuot(f) + 1

-----------------------------------------------------------------------------
(* Signals and pulses.                                                     *)

\* A constructed Signal.  duty_cycle is the fraction duty_num / duty_den; it
\* is read only when the signal was built from its duty cycle.
Signal(frequency, channels, offset, duty_num, duty_den, high, active_high, duty_cycle_set) ==
    [ frequency |-> frequency, channels |-> channels, offset |-> offset,
      duty_num |-> duty_num, duty_den |-> duty_den, high |-> high,
      active_high |-> active_high, _duty_cycle_set |-> duty_cycle_set ]

\* The object the dataclass's __init__ leaves for __post_init__: the fields
\* as given.
SignalArgs(frequency, channels, offset, duty_num, duty_den, high, active_high) ==
    [ frequency |-> frequency, channels |-> channels, offset |-> offset,
      duty_num |-> duty_num, duty_den |-> duty_den, high |-> high,
      active_high |-> active_high ]

\* 1 / frequency <= high * 1e-9: the period is at most high ns
PeriodAtMost(f, high) ==
    \/ PeriodQuot(f) < high
    \/ PeriodQuot(f) = high /\ PeriodRem(f) = 0

\* int((1 / frequency * 1e9) * duty_cycle)
DutyHigh(f, duty_num, duty_den) ==
    (duty_num * PeriodQuot(f) + ((duty_num * PeriodRem(f)) \div f)) \div duty_den

\* the high time __post_init__ leaves in the object
EffectiveHigh(args) ==
    IF args.high = 0 THEN DutyHigh(args.frequency, args.duty_num, args.duty_den)
    ELSE args.high

\* whether __post_init__ raises
InvalidSignal(args) ==
    \/ args.frequency <= 0
    \/ args.offset < 0
    \/ args.high < 0
    \/ ~(0 <= args.duty_num /\ args.duty_num <= args.duty_den)
    \/ args.channels = << >>
    \/ \E k \in 1..Len(args.channels) : args.channels[k] < 0
    \/ PeriodAtMost(args.frequency, EffectiveHigh(args))

\* the duty_cycle __post_init__ derives from a given high time is
\* high / period; it is carried as numerator high over this denominator,
\* which stands for the period 1e9 / frequency
OverPeriod == 0

\* the object __post_init__ leaves when it does not raise
post_init(args) ==
    IF args.high = 0
    THEN Signal(args.frequency, args.channels, args.offset, args.duty_num, args.duty_den,
                EffectiveHigh(args), args.active_high, TRUE)
    ELSE Signal(args.frequency, args.channels, args.offset, args.high, OverPeriod,
                args.high, args.active_high, FALSE)

Pulse(period, channels, offset, high, active_high) ==
    [ period |-> period, channels |-> channels, offset |-> offset, high |-> high,
      active_high |-> active_high ]

\* the channels of a list of signals or pulses, as a set
ChannelsOf(sigs) == UNION { { sigs[i].channels[k] : k \in 1..Len(sigs[i].channels) }
                            : i \in 1..Len(sigs) }

ChannelSet(p) == { p.channels[k] : k \in 1..Len(p.channels) }

-----------------------------------------------------------------------------
(* minimum_duration_and_num_cycles, called without a duration and with the *)
(* default n_round, n_digits and t_max.                                    *)

n_round == 5000

n_digits == 4

\* t_max is 10e9 ns, written in seconds
t_max_seconds == 10

FrequencyOf(p) == p.frequency

\* int(round(f * 10**n_digits)) of a frequency
ScaledFrequency(f) == f * ((10 ^ n_digits) \div FrequencyDen)

\* the frequencies of the primary signals, then of the masking signals
FrequenciesOf(pulses, masking_pulses) ==
    [ i \in 1..Len(pulses) |-> FrequencyOf(pulses[i]) ]
        \o [ i \in 1..Len(masking_pulses) |-> FrequencyOf(masking_pulses[i]) ]

\* [int(round(f * 10**n_digits)) for f in frequencies]
ScaledFrequencies(frequencies) ==
    [ i \in 1..Len(frequencies) |-> ScaledFrequency(frequencies[i]) ]

\* the gcd of the rounded frequencies is one of them: every frequency is a
\* multiple of the slowest one
IsMultipleCase(frequencies) ==
    Contains(ScaledFrequencies(frequencies), GcdAll(ScaledFrequencies(frequencies)))

\* What the function returns for a duration and rescaled periods; 1e9 / p
\* raises ZeroDivisionError for a period of 0.
SyncReturn(dur, periods, q) ==
    IF \E i \in 1..Len(periods) : periods[i] = 0
    THEN [ raised |-> TRUE, duration |-> 0, nr_cycles |-> 0, periods |-> << >> ]
    ELSE [ raised |-> FALSE, duration |-> dur, nr_cycles |-> dur \div q, periods |-> periods ]

\* the slowest period rounded to the quantum only
MultipleCaseDurationQuantum(fmin, ns_round) ==
    round_to_nearest_n_ns(PeriodRound(fmin), ns_round \div n_round)

\* lines 59-62: the slowest period, rounded to the nearest multiple of ns_round
MultipleCaseDuration(fmin, ns_round) ==
    round_to_nearest_n_ns(PeriodRound(fmin), ns_round)

\* int(round(duration / (f / fmin))), the ratio f / fmin in lowest terms
RatioRound(dur, f, fmin) ==
    Round(dur * (fmin \div Gcd(f, fmin)), f \div Gcd(f, fmin))

\* lines 66-72: the rescaled periods, each a multiple of the quantum
MultipleCasePeriods(frequencies, fmin, dur, q) ==
    [ i \in 1..Len(frequencies) |->
        round_to_nearest_n_ns(RatioRound(dur, frequencies[i], fmin), q) ]

MultipleCase(frequencies, fmin, dur, q) ==
    SyncReturn(dur, MultipleCasePeriods(frequencies, fmin, dur, q), q)

\* lines 75-80: a period rounded down to the quantum, then to the nearest ns_round
LcmCasePeriod(f, q, ns_round) ==
    round_to_nearest_n_ns(PeriodRound(f) - (PeriodRound(f) % q), ns_round)

LcmCasePeriods(frequencies, q, ns_round) ==
    [ i \in 1..Len(frequencies) |-> LcmCasePeriod(frequencies[i], q, ns_round) ]

\* lcm(*periods) in units of ns_round, which every period is a multiple of
LcmRounds(periods, ns_round) ==
    LcmAll([ i \in 1..Len(periods) |-> periods[i] \div ns_round ])

\* the whole seconds of a time of k units of ns_round
WholeSeconds(k, ns_round) ==
    (k * (ns_round \div Gcd(ns_round, NsPerSecond)))
        \div (NsPerSecond \div Gcd(ns_round, NsPerSecond))

\* lcm_periods >= t_max
ReachesTMax(periods, ns_round) ==
    WholeSeconds(LcmRounds(periods, ns_round), ns_round) >= t_max_seconds

\* lines 83-94: the lcm of the periods, refused from t_max on; lcm() of no
\* periods is 1
LcmCase(periods, q, ns_round) ==
    IF periods = << >> THEN SyncReturn(1, periods, q)
    ELSE IF ReachesTMax(periods, ns_round)
    THEN [ raised |-> TRUE, duration |-> 0, nr_cycles |-> 0, periods |-> << >> ]
    ELSE SyncReturn(LcmRounds(periods, ns_round) * ns_round, periods, q)

SyncFrequencies(frequencies, q) ==
    IF IsMultipleCase(frequencies)
    THEN MultipleCase(frequencies, MinAll(frequencies),
                      MultipleCaseDuration(MinAll(frequencies), n_round * q), q)
    ELSE LcmCase(LcmCasePeriods(frequencies, q, n_round * q), q, n_round * q)

\* returns [raised, duration, nr_cycles, periods]
minimum_duration_and_num_cycles(pulses, masking_pulses, q) ==
    SyncFrequencies(FrequenciesOf(pulses, masking_pulses), q)

-----------------------------------------------------------------------------
(* pulses_convert_to_instruction_length and rescale_pulses.                *)

\* a quantizer that takes every high time from the signal's own high time
ConvertSignalKeepHigh(signal, period_ns, q) ==
    Pulse(Round(period_ns, q), signal.channels, Round(signal.offset, q),
          Round(signal.high, q), signal.active_high)

\* the Pulse of one signal whose rescaled period is period_ns, at quantum q
ConvertSignal(signal, period_ns, q) ==
    LET f == Round(period_ns, q)
        o == Round(signal.offset, q)
        h == IF signal._duty_cycle_set
             THEN Round(f * signal.duty_num, signal.duty_den)
             ELSE Round(signal.high, q)
    IN  Pulse(f, signal.channels, o, h, signal.active_high)

\* the values one pulse adds to instruction_cycles
CyclesOf(pulse) ==
    << pulse.period, pulse.high >> \o (IF pulse.offset # 0 THEN << pulse.offset >> ELSE << >>)

RECURSIVE Flatten(_)
Flatten(lists) == IF lists = << >> THEN << >> ELSE Head(lists) \o Flatten(Tail(lists))

\* the pulses of pulses_convert_to_instruction_length; sigs[i] carries the
\* rescaled period periods[i]
ConvertSignals(sigs, periods, q) ==
    [ i \in 1..Len(sigs) |-> ConvertSignal(sigs[i], periods[i], q) ]

\* the instruction_cycles of pulses_convert_to_instruction_length
InstructionCycles(units) == Flatten([ i \in 1..Len(units) |-> CyclesOf(units[i]) ])

RescalePulse(pulse, gcd_cycles) ==
    Pulse(pulse.period \div gcd_cycles, pulse.channels, pulse.offset \div gcd_cycles,
          pulse.high \div gcd_cycles, pulse.active_high)

rescale_pulses(gcd_cycles, units) ==
    IF gcd_cycles # 1
    THEN [ i \in 1..Len(units) |-> RescalePulse(units[i], gcd_cycles) ]
    ELSE units

-----------------------------------------------------------------------------
(* One simulated cycle: calculate_resets, calculate_resets_masking, the    *)
(* channel state, and the run-length step.                                 *)

\* the pulses whose offset has been reached at instruction cycle cyc
Started(units, cyc) == { i \in 1..Len(units) : cyc >= units[i].offset }

\* calculate_resets: the channels that are active in this cycle
ActiveChannels(elapsed, units, cyc) ==
    UNION { ChannelSet(units[i]) : i \in { j \in Started(units, cyc) : elapsed[j] < units[j].high } }

\* the elapsed counters after this cycle (both calculate_resets functions)
AdvanceElapsed(elapsed, units, cyc) ==
    [ i \in 1..Len(units) |->
        IF cyc >= units[i].offset THEN (elapsed[i] + 1) % units[i].period ELSE elapsed[i] ]

\* whether a masking pulse takes its channels out of the base set in this cycle
MaskRemoves(elapsed_i, pulse) == elapsed_i >= pulse.high

\* calculate_resets_masking: the base channels no masking pulse removes
MaskingActiveChannels(elapsed, base_channels, units, cyc) ==
    base_channels \ UNION { ChannelSet(units[i]) :
                            i \in { j \in Started(units, cyc) : MaskRemoves(elapsed[j], units[j]) } }

\* any(flags[:-reserved_channels])
AnyControllable(flags, reserved_channels) ==
    \E k \in 1..(Len(flags) - reserved_channels) : flags[k] # 0

\* reserved channels that are left as they are
ReservedLeftAlone(flags, reserved_channels) == flags

\* set_reserved_channels, as the list it leaves (reserved_channels < len(flags))
set_reserved_channels(flags, reserved_channels) ==
    IF reserved_channels <= 0 THEN flags
    ELSE [ k \in 1..Len(flags) |->
             IF k > Len(flags) - reserved_channels
             THEN (IF AnyControllable(flags, reserved_channels) THEN 1 ELSE 0)
             ELSE flags[k] ]

\* the channels of the signals that are active low
ActiveLowChannels(sigs) ==
    UNION { ChannelSet(sigs[i]) : i \in { j \in 1..Len(sigs) : ~sigs[j].active_high } }

\* a channel state without the inversion of the active-low channels
ChannelStateNotInverted(gated_channels, active_low_channels, nr_channels, reserved_channels) ==
    set_reserved_channels(
        [ k \in 1..nr_channels |-> IF (k - 1) \in gated_channels THEN 1 ELSE 0 ],
        reserved_channels)

\* chs of one cycle: gated channels set, active-low channels inverted,
\* reserved channels mirrored.  Channel ch is entry ch + 1.
ChannelState(gated_channels, active_low_channels, nr_channels, reserved_channels) ==
    set_reserved_channels(
        [ k \in 1..nr_channels |->
            IF (k - 1) \in active_low_channels
            THEN (IF (k - 1) \in gated_channels THEN 0 ELSE 1)
            ELSE (IF (k - 1) \in gated_channels THEN 1 ELSE 0) ],
        reserved_channels)

\* an all-off state that forgets the active-low signals
AllChannelsLow(pulses, nr_channels, reserved_channels) ==
    set_reserved_channels([ k \in 1..nr_channels |-> 0 ], reserved_channels)

\* all_channels_off
all_channels_off(pulses, nr_channels, reserved_channels) ==
    set_reserved_channels(
        [ k \in 1..nr_channels |-> IF (k - 1) \in ActiveLowChannels(pulses) THEN 1 ELSE 0 ],
        reserved_channels)

\* a run-length step that never merges
RunLengthNoMerge(ts, cs, chs, q) == [ t |-> Append(ts, q), c |-> Append(cs, chs) ]

\* a run-length step that counts a merged cycle as one time unit, not as one
\* quantum
RunLengthMergeByOne(ts, cs, chs, q) ==
    IF cs = << >> THEN [ t |-> Append(ts, q), c |-> Append(cs, chs) ]
    ELSE IF Last(cs) = chs
    THEN [ t |-> [ ts EXCEPT ![Len(ts)] = ts[Len(ts)] + 1 ], c |-> cs ]
    ELSE [ t |-> Append(ts, q), c |-> Append(cs, chs) ]

\* the run-length step: t and c after a cycle whose state is chs
RunLength(ts, cs, chs, q) ==
    IF cs = << >> THEN [ t |-> Append(ts, q), c |-> Append(cs, chs) ]
    ELSE IF Last(cs) = chs
    THEN [ t |-> [ ts EXCEPT ![Len(ts)] = ts[Len(ts)] + q ], c |-> cs ]
    ELSE [ t |-> Append(ts, q), c |-> Append(cs, chs) ]

\* an instruction list whose BRANCH lasts two quanta
PulseSequenceLongBranch(ts, cs, channels_off, q) ==
    [ i \in 1..Len(ts) |-> Instruction(cs[i], ts[i], "CONTINUE", 0) ]
        \o << Instruction(channels_off, 2 * q, "BRANCH", 0) >>

\* a list whose BRANCH names its own address
PulseSequenceBranchToSelf(ts, cs, channels_off, q) ==
    [ i \in 1..Len(ts) |-> Instruction(cs[i], ts[i], "CONTINUE", 0) ]
        \o << Instruction(channels_off, q, "BRANCH", Len(ts)) >>

\* the instruction list built from t, c and the all-off state
PulseSequence(ts, cs, channels_off, q) ==
    [ i \in 1..Len(ts) |-> Instruction(cs[i], ts[i], "CONTINUE", 0) ]
        \o << Instruction(channels_off, q, "BRANCH", 0) >>

-----------------------------------------------------------------------------
(* generate_repeating_pulses.                                              *)

MaxSignals == 2     \* longest list of primary signals
MaxMasking == 1     \* longest list of masking signals
NrChannels == 3     \* nr_channels of the call
ReservedChannels == 1   \* reserved_channels of the call

\* min_instruction_len of the call (its default)
QuantumNs == 20

\* The signals the compiler is run on: two frequencies, the slower period
\* twice the faster; a controllable channel each; and one of four kinds:
\* active high with half duty cycle from offset 0, or from three quarters of
\* the fast period (so that the signal is high when the synchronized duration
\* ends), or with a high time of a quarter of the fast period; or active low
\* with half duty cycle from a quarter of the fast period.
Frequencies == << 5000 * FrequencyDen, 10000 * FrequencyDen >>

QuarterNs == PeriodRound(Frequencies[2]) \div 4

Kinds == << [ offset |-> 0, high |-> 0, active_high |-> TRUE ],
            [ offset |-> 3 * QuarterNs, high |-> 0, active_high |-> TRUE ],
            [ offset |-> 0, high |-> QuarterNs, active_high |-> TRUE ],
            [ offset |-> QuarterNs, high |-> 0, active_high |-> FALSE ] >>

NrControllable == NrChannels - ReservedChannels

\* the channels a signal is given: the controllable ones, 0..NrControllable-1,
\* and the first reserved one
NrChannelChoices == NrControllable + 1

NrSignalChoices == Len(Frequencies) * NrChannelChoices * Len(Kinds)

\* the k-th signal, k in 0..NrSignalChoices-1, built with the default duty
\* cycle 0.5
SignalChoice(k) ==
    LET f == Frequencies[(k % Len(Frequencies)) + 1]
        k1 == k \div Len(Frequencies)
        ch == k1 % NrChannelChoices
        kind == Kinds[(k1 \div NrChannelChoices) + 1]
    IN  post_init(SignalArgs(f, << ch >>, kind.offset, 1, 2, kind.high, kind.active_high))

NrMaskingChoices == Len(Frequencies) * NrChannelChoices

\* the k-th masking signal: half duty cycle, from offset 0 or from a quarter
\* of the fast period
MaskingChoice(k) ==
    LET f == Frequencies[(k % Len(Frequencies)) + 1]
        ch == k \div Len(Frequencies)
        offset == IF (k + ch) % 2 = 0 THEN 0 ELSE QuarterNs
    IN  post_init(SignalArgs(f, << ch >>, offset, 1, 2, 0, TRUE))

\* lists of choices are taken in increasing order of k
Increasing(ks) == \A i \in 1..(Len(ks) - 1) : ks[i] < ks[i + 1]

GenInit ==
    /\ mode = "gen"
    /\ DeviceIdle
    /\ pc = "call"
    /\ \E n \in 0..MaxSignals : \E ks \in [ 1..n -> 0..(NrSignalChoices - 1) ] :
          /\ Increasing(ks)
          /\ signals = [ i \in 1..n |-> SignalChoice(ks[i]) ]
    /\ \E m \in 0..MaxMasking : \E ks \in [ 1..m -> 0..(NrMaskingChoices - 1) ] :
          /\ Increasing(ks)
          /\ masking_signals = [ i \in 1..m |-> MaskingChoice(ks[i]) ]
    /\ min_instruction_len = QuantumNs
    /\ duration = 0
    /\ nr_cycles = 0
    /\ frequencies_rescaled = << >>
    /\ pulses_cycle_units = << >>
    /\ masking_pulses_cycle_units = << >>
    /\ instruction_cycle = 0
    /\ pulse_elapsed_cycles = << >>
    /\ masking_pulse_elapsed_cycles = << >>
    /\ t = << >>
    /\ c = << >>
    /\ instructions = << >>
    /\ idx = 0
    /\ _duration = << >>
    /\ _flags = << >>
    /\ _addresses = << >>
    /\ subroutines = << >>
    /\ loops = << >>
    /\ branch_index = None
    /\ status = "idle"
    /\ code = << >>
    /\ error = NoError

\* max(channels, default=-1)
MaxChannel(channels) ==
    IF channels = {} THEN -1 ELSE CHOOSE x \in channels : \A y \in channels : y <= x

\* an input validation that lets a masking signal name any controllable channel
InvalidCallAnyMasking(sigs, masks, q, nr_channels, reserved_channels) ==
    \/ Len(sigs) = 0
    \/ q <= 0
    \/ nr_channels <= 0
    \/ reserved_channels < 0
    \/ reserved_channels >= nr_channels
    \/ MaxChannel(ChannelsOf(sigs) \cup ChannelsOf(masks)) > nr_channels - reserved_channels - 1

\* the input validation: whether the call raises before any computation
InvalidCall(sigs, masks, q, nr_channels, reserved_channels) ==
    \/ Len(sigs) = 0
    \/ q <= 0
    \/ nr_channels <= 0
    \/ reserved_channels < 0
    \/ reserved_channels >= nr_channels
    \/ MaxChannel(ChannelsOf(sigs) \cup ChannelsOf(masks)) > nr_channels - reserved_channels - 1
    \/ ~(ChannelsOf(masks) \subseteq ChannelsOf(sigs))

\* a loop that simulates the last cycle too
SimulatedCyclesAll(dur, q) == dur \div q

\* a loop that stops one cycle early
SimulatedCyclesOneShort(dur, q) == (dur \div q) - 2

\* the number of cycles the loop simulates
SimulatedCycles(dur, q) == (dur \div q) - 1

\* the frequency 1e9 / period_ns that a signal of frequency f is given: f
\* itself when period_ns is exactly its period, and otherwise a frequency
\* that is no whole number of 1 / FrequencyDen Hz, carried as minus its period
RescaledFrequency(f, period_ns) ==
    IF PeriodQuot(f) = period_ns /\ PeriodRem(f) = 0 THEN f ELSE 0 - period_ns

\* lines 320-325: signal.frequency = f_rescaled on each object of a list
SetFrequencies(sigs, periods) ==
    [ i \in 1..Len(sigs) |->
        [ sigs[i] EXCEPT !.frequency = RescaledFrequency(sigs[i].frequency, periods[i]) ] ]

\* a function that writes to the caller's own objects
SharedObjects(sigs, written) == written

\* lines 316-317: the function works on deep copies, so the caller's objects
\* sigs are what they were whatever is written to the copies
deepcopy(sigs, written) == sigs

\* the rescaled periods the primary signals are given (zip from the front)
OwnPeriods(periods, sigs) == SubSeq(periods, 1, Len(sigs))

\* the rescaled periods the masking signals are given (the last len(masks))
MaskingPeriods(periods, masks) == SubSeq(periods, Len(periods) - Len(masks) + 1, Len(periods))

\* lines 274-363: everything before the loop
GenCall ==
    /\ pc = "call"
    /\ IF InvalidCall(signals, masking_signals, min_instruction_len,
                      NrChannels, ReservedChannels)
       THEN /\ pc' = "raised"
            /\ UNCHANGED << signals, masking_signals, min_instruction_len, duration,
                            nr_cycles, frequencies_rescaled, pulses_cycle_units,
                            masking_pulses_cycle_units, pulse_elapsed_cycles,
                            masking_pulse_elapsed_cycles >>
       ELSE \E sync \in { minimum_duration_and_num_cycles(signals, masking_signals,
                                                           min_instruction_len) } :
            IF sync.raised
            THEN /\ pc' = "raised"
                 /\ UNCHANGED << signals, masking_signals, min_instruction_len,
                                 duration, nr_cycles, frequencies_rescaled,
                                 pulses_cycle_units, masking_pulses_cycle_units,
                                 pulse_elapsed_cycles, masking_pulse_elapsed_cycles >>
            ELSE \E units \in { ConvertSignals(signals, OwnPeriods(sync.periods, signals),
                                               min_instruction_len) } :
                 \E masking_units \in { ConvertSignals(masking_signals,
                                           MaskingPeriods(sync.periods, masking_signals),
                                           min_instruction_len) } :
                 \E gcd_cycles \in { GcdAll(InstructionCycles(units)
                                            \o InstructionCycles(masking_units)
                                            \o << sync.nr_cycles >>) } :
                     /\ pc' = "cycles"
                     /\ signals' = deepcopy(signals,
                                       SetFrequencies(signals,
                                                      OwnPeriods(sync.periods, signals)))
                     /\ masking_signals' =
                           deepcopy(masking_signals,
                                    SetFrequencies(masking_signals,
                                                   MaskingPeriods(sync.periods,
                                                                  masking_signals)))
                     /\ duration' = sync.duration
                     /\ frequencies_rescaled' = sync.periods
                     /\ pulses_cycle_units' = rescale_pulses(gcd_cycles, units)
                     /\ masking_pulses_cycle_units' = rescale_pulses(gcd_cycles, masking_units)
                     /\ min_instruction_len' = min_instruction_len * gcd_cycles
                     /\ nr_cycles' = SimulatedCycles(sync.duration,
                                                     min_instruction_len * gcd_cycles)
                     /\ pulse_elapsed_cycles' = [ i \in 1..Len(signals) |-> 0 ]
                     /\ masking_pulse_elapsed_cycles' = [ i \in 1..Len(masking_signals) |-> 0 ]
    /\ UNCHANGED << mode, deviceVars, parseVars, unrollVars, instruction_cycle, t, c >>

\* the channel state of the cycle the loop is at
CycleState ==
    ChannelState(
        ActiveChannels(pulse_elapsed_cycles, pulses_cycle_units, instruction_cycle)
            \cap MaskingActiveChannels(masking_pulse_elapsed_cycles, ChannelsOf(signals),
                                       masking_pulses_cycle_units, instruction_cycle),
        ActiveLowChannels(signals), NrChannels, ReservedChannels)

\* lines 368-409: one iteration of the loop
GenCycle ==
    /\ pc = "cycles"
    /\ instruction_cycle < nr_cycles
    /\ \E rl \in { RunLength(t, c, CycleState, min_instruction_len) } :
           /\ t' = rl.t
           /\ c' = rl.c
    /\ pulse_elapsed_cycles' =
          AdvanceElapsed(pulse_elapsed_cycles, pulses_cycle_units, instruction_cycle)
    /\ masking_pulse_elapsed_cycles' =
          AdvanceElapsed(masking_pulse_elapsed_cycles, masking_pulses_cycle_units,
                         instruction_cycle)
    /\ instruction_cycle' = instruction_cycle + 1
    /\ UNCHANGED << mode, deviceVars, parseVars, unrollVars, pc, signals, masking_signals, min_instruction_len,
                    duration, nr_cycles, frequencies_rescaled, pulses_cycle_units,
                    masking_pulses_cycle_units >>

\* lines 411-435: the loop is over; the instruction list is built and handed
\* to InstructionSequence, whose construction unrolls it
GenFinish ==
    /\ pc = "cycles"
    /\ instruction_cycle >= nr_cycles
    /\ pc' = "done"
    /\ instructions' = PulseSequence(t, c,
                          all_channels_off(signals, NrChannels, ReservedChannels),
                          min_instruction_len)
    /\ status' = "running"
    /\ UNCHANGED << mode, deviceVars, parseVars, idx, _duration, _flags, _addresses, subroutines, loops,
                    branch_index, signals, masking_signals, min_instruction_len, duration,
                    nr_cycles, frequencies_rescaled, pulses_cycle_units,
                    masking_pulses_cycle_units,
                    instruction_cycle, pulse_elapsed_cycles, masking_pulse_elapsed_cycles,
                    t, c >>

\* The compiler's lists hold CONTINUE and BRANCH instructions only, so these
\* are the unroller's steps that InstructionSequence can take.
GenNext ==
    \/ GenCall
    \/ GenCycle
    \/ GenFinish
    \/ VisitPlain
    \/ VisitBRANCH

GenSpec == GenInit /\ [][GenNext]_vars

-----------------------------------------------------------------------------
(* Signal construction: the dataclass's __init__ has stored the arguments,  *)
(* and __post_init__ validates them and derives the high time or the duty   *)
(* cycle.                                                                   *)

\* the unroller's variables while no instruction list is unrolled
UnrollIdle ==
    /\ instructions = << >>
    /\ idx = 0
    /\ _duration = << >>
    /\ _flags = << >>
    /\ _addresses = << >>
    /\ subroutines = << >>
    /\ loops = << >>
    /\ branch_index = None
    /\ status = "idle"
    /\ code = << >>
    /\ error = NoError

\* the compiler's working variables before a call
CompilerIdle ==
    /\ duration = 0
    /\ nr_cycles = 0
    /\ frequencies_rescaled = << >>
    /\ pulses_cycle_units = << >>
    /\ masking_pulses_cycle_units = << >>
    /\ instruction_cycle = 0
    /\ pulse_elapsed_cycles = << >>
    /\ masking_pulse_elapsed_cycles = << >>
    /\ t = << >>
    /\ c = << >>

\* The arguments Signal is constructed with: frequencies of -10, 0, 3, 10 and
\* 10000 Hz; duty cycles of -0.5, 0, 0.5, 1 and 1.5; high times around the
\* periods of 10 kHz and 3 Hz.
ArgFrequencies == { -100, 0, 30, 100, 100000 }

ArgChannels == { << >>, << 0 >>, << -1 >>, << 0, 1 >>, << 1, -2 >> }

ArgOffsets == { -1, 0, 25000 }

ArgDuties == { << -1, 2 >>, << 0, 1 >>, << 1, 2 >>, << 1, 1 >>, << 3, 2 >> }

ArgHighs == { -1, 0, 1, 25000, 99999, 100000, 333333333, 333333334 }

SignalInit ==
    /\ mode = "signal"
    /\ DeviceIdle
    /\ pc = "init"
    /\ \E f \in ArgFrequencies : \E chs \in ArgChannels : \E o \in ArgOffsets :
       \E d \in ArgDuties : \E h \in ArgHighs : \E ah \in BOOLEAN :
           signals = << SignalArgs(f, chs, o, d[1], d[2], h, ah) >>
    /\ masking_signals = << >>
    /\ min_instruction_len = QuantumNs
    /\ CompilerIdle
    /\ UnrollIdle

\* __post_init__ on every object the caller constructs; an exception leaves
\* the caller without signals
PostInit ==
    /\ pc = "init"
    /\ IF \/ \E i \in 1..Len(signals) : InvalidSignal(signals[i])
          \/ \E i \in 1..Len(masking_signals) : InvalidSignal(masking_signals[i])
       THEN /\ pc' = "raised"
            /\ signals' = << >>
            /\ masking_signals' = << >>
       ELSE /\ pc' = "constructed"
            /\ signals' = [ i \in 1..Len(signals) |-> post_init(signals[i]) ]
            /\ masking_signals' =
                  [ i \in 1..Len(masking_signals) |-> post_init(masking_signals[i]) ]
    /\ UNCHANGED << mode, deviceVars, parseVars, unrollVars, min_instruction_len, duration, nr_cycles,
                    frequencies_rescaled, pulses_cycle_units, masking_pulses_cycle_units,
                    instruction_cycle, pulse_elapsed_cycles, masking_pulse_elapsed_cycles,
                    t, c >>

SignalNext == PostInit

SignalSpec == SignalInit /\ [][SignalNext]_vars

-----------------------------------------------------------------------------
(* The synchronizer and the quantizer on their own: the caller constructs  *)
(* its signals, minimum_duration_and_num_cycles is called without a        *)
(* duration, and the signals, given the rescaled frequencies, are          *)
(* converted by pulses_convert_to_instruction_length.                      *)

\* The frequencies of a call are taken from one family [tenths of a hertz]:
\* 10, 20, 30, 200 and 300 Hz; 3.2, 20 and 312.5 Hz; 3.3, 5.3 and 30 Hz.
Families == << << 100, 200, 300, 2000, 3000 >>,
               << 32, 200, 3125 >>,
               << 33, 53, 300 >> >>

\* the high time [ns] of the signals that are given one
GivenHighNs == 500000

\* the k-th signal of a family, k in 0..2*Len(family)-1: channel 0, no offset,
\* built from the default duty cycle 0.5 or from a given high time
SyncSignalArgs(family, k) ==
    SignalArgs(family[(k \div 2) + 1], << 0 >>, 0, 1, 2,
               IF k % 2 = 0 THEN 0 ELSE GivenHighNs, TRUE)

\* the k-th masking signal of a family, k in 0..Len(family)-1, built from
\* the duty cycle 0.25
SyncMaskingArgs(family, k) == SignalArgs(family[k + 1], << 0 >>, 0, 1, 4, 0, TRUE)

SyncInit ==
    /\ mode = "sync"
    /\ DeviceIdle
    /\ pc = "init"
    /\ \E fam \in 1..Len(Families) :
          /\ \E n \in 0..MaxSignals :
             \E ks \in [ 1..n -> 0..(2 * Len(Families[fam]) - 1) ] :
                /\ Increasing(ks)
                /\ signals = [ i \in 1..n |-> SyncSignalArgs(Families[fam], ks[i]) ]
          /\ \E m \in 0..MaxMasking :
             \E ks \in [ 1..m -> 0..(Len(Families[fam]) - 1) ] :
                /\ Increasing(ks)
                /\ masking_signals = [ i \in 1..m |-> SyncMaskingArgs(Families[fam], ks[i]) ]
    /\ min_instruction_len = QuantumNs
    /\ CompilerIdle
    /\ UnrollIdle

\* minimum_duration_and_num_cycles(signals, masking_signals, None,
\* min_instruction_len)
SyncCall ==
    /\ pc = "constructed"
    /\ \E sync \in { minimum_duration_and_num_cycles(signals, masking_signals,
                                                      min_instruction_len) } :
          IF sync.raised
          THEN /\ pc' = "sync_raised"
               /\ UNCHANGED << duration, nr_cycles, frequencies_rescaled >>
          ELSE /\ pc' = "synced"
               /\ duration' = sync.duration
               /\ nr_cycles' = sync.nr_cycles
               /\ frequencies_rescaled' = sync.periods
    /\ UNCHANGED << mode, deviceVars, parseVars, unrollVars, signals, masking_signals, min_instruction_len,
                    pulses_cycle_units, masking_pulses_cycle_units, instruction_cycle,
                    pulse_elapsed_cycles, masking_pulse_elapsed_cycles, t, c >>

\* generate_pulses.py lines 315-337: copies of the signals are given the
\* rescaled frequencies and converted to pulses in quanta; the caller's
\* signals stay as they are
Quantize ==
    /\ pc = "synced"
    /\ pc' = "quantized"
    /\ signals' = deepcopy(signals,
                      SetFrequencies(signals, OwnPeriods(frequencies_rescaled, signals)))
    /\ masking_signals' =
          deepcopy(masking_signals,
                   SetFrequencies(masking_signals,
                                  MaskingPeriods(frequencies_rescaled, masking_signals)))
    /\ pulses_cycle_units' =
          ConvertSignals(signals, OwnPeriods(frequencies_rescaled, signals),
                         min_instruction_len)
    /\ masking_pulses_cycle_units' =
          ConvertSignals(masking_signals,
                         MaskingPeriods(frequencies_rescaled, masking_signals),
                         min_instruction_len)
    /\ UNCHANGED << mode, deviceVars, parseVars, unrollVars, min_instruction_len,
                    duration, nr_cycles, frequencies_rescaled, instruction_cycle,
                    pulse_elapsed_cycles, masking_pulse_elapsed_cycles, t, c >>

SyncNext ==
    \/ PostInit
    \/ SyncCall
    \/ Quantize

SyncSpec == SyncInit /\ [][SyncNext]_vars

\* the t_max arguments of a call [ms]: the default and a tenth of a second
TMaxMillis == { t_max_seconds * 1000, 100 }

\* the whole milliseconds of a time of k units of ns_round
WholeMillis(k, ns_round) ==
    (k * (ns_round \div Gcd(ns_round, NsPerSecond \div 1000)))
        \div ((NsPerSecond \div 1000) \div Gcd(ns_round, NsPerSecond \div 1000))

\* lines 83-94 for a t_max of t_max_ms milliseconds: lcm_periods >= t_max raises
LcmCaseWithin(periods, q, ns_round, t_max_ms) ==
    IF periods = << >> THEN SyncReturn(1, periods, q)
    ELSE IF WholeMillis(LcmRounds(periods, ns_round), ns_round) >= t_max_ms
    THEN [ raised |-> TRUE, duration |-> 0, nr_cycles |-> 0, periods |-> << >> ]
    ELSE SyncReturn(LcmRounds(periods, ns_round) * ns_round, periods, q)

\* lines 52-96 for a t_max of t_max_ms milliseconds: only the else branch
\* reads t_max
SyncFrequenciesWithin(frequencies, q, t_max_ms) ==
    IF IsMultipleCase(frequencies)
    THEN MultipleCase(frequencies, MinAll(frequencies),
                      MultipleCaseDuration(MinAll(frequencies), n_round * q), q)
    ELSE LcmCaseWithin(LcmCasePeriods(frequencies, q, n_round * q), q, n_round * q, t_max_ms)

\* the outcome of minimum_duration_and_num_cycles(signals, masking_signals,
\* None, min_instruction_len, t_max=t_max)
CalledWithin(t_max_ms) ==
    \E sync \in { SyncFrequenciesWithin(FrequenciesOf(signals, masking_signals),
                                        min_instruction_len, t_max_ms) } :
        IF sync.raised
        THEN /\ pc' = "sync_raised"
             /\ UNCHANGED << duration, nr_cycles, frequencies_rescaled >>
        ELSE /\ pc' = "synced"
             /\ duration' = sync.duration
             /\ nr_cycles' = sync.nr_cycles
             /\ frequencies_rescaled' = sync.periods

\* the synchronizer called with a t_max of the caller's
CeilingCall ==
    /\ pc = "constructed"
    /\ \E t_max_ms \in TMaxMillis : CalledWithin(t_max_ms)
    /\ UNCHANGED << mode, deviceVars, parseVars, unrollVars, signals, masking_signals, min_instruction_len,
                    pulses_cycle_units, masking_pulses_cycle_units, instruction_cycle,
                    pulse_elapsed_cycles, masking_pulse_elapsed_cycles, t, c >>

CeilingNext ==
    \/ PostInit
    \/ CeilingCall

CeilingSpec == SyncInit /\ [][CeilingNext]_vars

-----------------------------------------------------------------------------
(* code_to_instructions (read_code.py).  A line of text is what is left of *)
(* it after the comment is cut off and the rest is split at the commas:    *)
(* no field at all for a blank or comment-only line, else the fields, each *)
(* as the characters the parser looks at.                                  *)

MaxLines == 4       \* longest program text, in lines

\* the first field: an optional "label:", then the flags literal as its
\* prefix and its digits
FlagsField(colon, label, prefix, digits) ==
    [ colon |-> colon, label |-> label, prefix |-> prefix, digits |-> digits ]

\* the duration field: a decimal number num / den and the letters after it
DurationField(num, den, unit) == [ num |-> num, den |-> den, unit |-> unit ]

\* a line of nfields fields before its comment, if it has one; a field that
\* is not written is ""
Line(first, dur, opcode, operand, nfields, comment) ==
    [ nfields |-> nfields, first |-> first, dur |-> dur, opcode |-> opcode,
      operand |-> operand, comment |-> comment ]

\* a blank line
BlankLine ==
    Line(FlagsField(FALSE, "", "", << >>), DurationField(0, 1, ""), "", "", 0, FALSE)

\* a line that holds a comment only
CommentLine ==
    Line(FlagsField(FALSE, "", "", << >>), DurationField(0, 1, ""), "", "", 0, TRUE)

\* the dictionary addresses before the first label is met
NoAddresses == [ label \in {} |-> 0 ]

\* str.lower() and str.upper() on the tokens of the texts
Lower(str) ==
    CASE str = "NS" -> "ns"
      [] str = "Ms" -> "ms"
      [] str = "0B" -> "0b"
      [] str = "0X" -> "0x"
      [] OTHER -> str

Upper(str) ==
    CASE str = "loop" -> "LOOP"
      [] str = "Stop" -> "STOP"
      [] str = "end_loop" -> "END_LOOP"
      [] OTHER -> str

\* int(text) of an operand: the decimal literals of the texts
IsDecimal(str) == str \in { "-1", "0", "1", "2", "3", "4", "5" }

IntOf(str) ==
    CASE str = "-1" -> 0 - 1
      [] str = "0" -> 0
      [] str = "1" -> 1
      [] str = "2" -> 2
      [] str = "3" -> 3
      [] str = "4" -> 4
      [] str = "5" -> 5

\* str(n) of an address
StrOf(n) ==
    CASE n = 0 -> "0"
      [] n = 1 -> "1"
      [] n = 2 -> "2"
      [] n = 3 -> "3"
      [] n = 4 -> "4"
      [] n = 5 -> "5"

RECURSIVE FromDigits(_, _)
\* int(digits, base)
FromDigits(digits, base) ==
    IF digits = << >> THEN 0
    ELSE FromDigits(Front(digits), base) * base + Last(digits)

\* time_units, in ns
time_units == [ unit \in { "ns", "us", "ms", "s" } |->
                  CASE unit = "ns" -> 1
                    [] unit = "us" -> 1000
                    [] unit = "ms" -> 1000000
                    [] unit = "s" -> 1000000000 ]

\* _parse_duration: the regular expression wants a number and then letters;
\* the unit is lower-cased before it is looked up; the product is truncated
parse_duration(token, line_number) ==
    IF token.unit = ""
    THEN [ error |-> Raised("Invalid duration", line_number), value |-> 0 ]
    ELSE IF Lower(token.unit) \notin DOMAIN time_units
    THEN [ error |-> Raised("Unsupported time unit", line_number), value |-> 0 ]
    ELSE [ error |-> NoError,
           value |-> (token.num * time_units[Lower(token.unit)]) \div token.den ]

\* a flags list whose entries are not masked to one bit
FlagBitsUnmasked(tmp, nr_flags) == [ i \in 1..nr_flags |-> tmp \div (2 ^ (i - 1)) ]

\* a flags list with the most significant bit first
FlagBitsReversed(tmp, nr_flags) ==
    [ i \in 1..nr_flags |-> (tmp \div (2 ^ (nr_flags - i))) % 2 ]

\* [tmp >> i & 1 for i in range(nr_flags)]
FlagBits(tmp, nr_flags) == [ i \in 1..nr_flags |-> (tmp \div (2 ^ (i - 1))) % 2 ]

\* the value of a flags literal (lines 81-86), None when it has no 0b or 0x
FlagsValue(first) ==
    IF Lower(first.prefix) = "0b" THEN FromDigits(first.digits, 2)
    ELSE IF Lower(first.prefix) = "0x" THEN FromDigits(first.digits, 16)
    ELSE None

\* a processed line that is sure to be an error
Failed(err) == [ error |-> err, label |-> "", entry |-> << >> ]

\* an entry of sequence_processed
Processed(label, flags, dur, opcode, inst_data_str, line_number) ==
    [ label |-> label, flags |-> flags, duration |-> dur, opcode |-> opcode,
      inst_data_str |-> inst_data_str, line_number |-> line_number ]

\* lines 56-120 on one line that is not blank: the error it raises, or the
\* entry it appends; labels are the labels defined so far
ProcessLine(line, line_number, labels, nr_flags) ==
    IF line.nfields < 2 THEN Failed(Raised("Invalid instruction", line_number))
    ELSE IF line.nfields > 4
    THEN Failed(Raised("Too many instruction fields", line_number))
    ELSE IF line.first.colon /\ line.first.label = ""
    THEN Failed(Raised("Empty label", line_number))
    ELSE IF line.first.colon /\ line.first.label \in labels
    THEN Failed(Raised("Duplicate label", line_number))
    ELSE IF FlagsValue(line.first) = None
    THEN Failed(Raised("flags not in bits or hex", line_number))
    ELSE IF ~(0 <= FlagsValue(line.first) /\ FlagsValue(line.first) < 2 ^ nr_flags)
    THEN Failed(Raised("Flags value exceeds nr_flags bits", line_number))
    ELSE IF parse_duration(line.dur, line_number).error # NoError
    THEN Failed(parse_duration(line.dur, line_number).error)
    ELSE IF line.nfields > 2 /\ Upper(line.opcode) \notin Opcode
    THEN Failed(Raised("Invalid opcode", line_number))
    ELSE [ error |-> NoError,
           label |-> IF line.first.colon THEN line.first.label ELSE "",
           entry |-> << Processed(IF line.first.colon THEN line.first.label ELSE "",
                                  FlagBits(FlagsValue(line.first), nr_flags),
                                  parse_duration(line.dur, line_number).value,
                                  IF line.nfields > 2 THEN Upper(line.opcode)
                                  ELSE "CONTINUE",
                                  IF line.nfields > 3 THEN line.operand ELSE "0",
                                  line_number) >> ]

\* addresses after an entry with a label is appended at address a
Bind(addresses, label, a) ==
    IF label = "" THEN addresses ELSE (label :> a) @@ addresses

RECURSIVE Scan(_, _, _, _, _)
\* lines 51-120 from line line_number on: the first error, or the dictionary
\* addresses and the list sequence_processed of the whole text
Scan(text, line_number, addresses, sequence_processed, nr_flags) ==
    IF line_number > Len(text)
    THEN [ error |-> NoError, addresses |-> addresses,
           sequence_processed |-> sequence_processed ]
    ELSE IF text[line_number].nfields = 0
    THEN Scan(text, line_number + 1, addresses, sequence_processed, nr_flags)
    ELSE \* one evaluation of the line
         LET one == ProcessLine(text[line_number], line_number, DOMAIN addresses, nr_flags)
         IN  IF one.error # NoError
             THEN [ error |-> one.error, addresses |-> addresses,
                    sequence_processed |-> sequence_processed ]
             ELSE Scan(text, line_number + 1,
                       Bind(addresses, one.label, Len(sequence_processed)),
                       sequence_processed \o one.entry, nr_flags)

\* an end of the second pass that lets open LOOPs through
LoopsLeftOpenUnchecked(sequence_processed, nested) == NoError

\* lines 132-137: after the second pass a LOOP that is still open is an
\* error, which names the line of the innermost open LOOP
LoopsLeftOpen(sequence_processed, nested) ==
    IF nested # << >>
    THEN Raised("LOOP without matching END_LOOP",
                sequence_processed[Last(nested) + 1].line_number)
    ELSE NoError

RECURSIVE MatchLoops(_, _, _)
\* lines 122-137 from index idx0 + 1 on, with the stack nested of the indices
\* of the open LOOPs: the error, or the list with each END_LOOP's
\* inst_data_str replaced
MatchLoops(sequence_processed, idx0, nested) ==
    IF idx0 >= Len(sequence_processed)
    THEN [ error |-> LoopsLeftOpen(sequence_processed, nested),
           sequence_processed |-> sequence_processed ]
    ELSE IF sequence_processed[idx0 + 1].opcode = "LOOP"
    THEN MatchLoops(sequence_processed, idx0 + 1, Append(nested, idx0))
    ELSE IF sequence_processed[idx0 + 1].opcode = "END_LOOP"
    THEN IF nested = << >>
         THEN [ error |-> Raised("END_LOOP without matching LOOP",
                                 sequence_processed[idx0 + 1].line_number),
                sequence_processed |-> sequence_processed ]
         ELSE MatchLoops([ sequence_processed EXCEPT
                             ![idx0 + 1].inst_data_str = StrOf(Last(nested)) ],
                         idx0 + 1, Front(nested))
    ELSE MatchLoops(sequence_processed, idx0 + 1, nested)

\* an operand that is read as a number before it is looked up as a label
ResolveNumberFirst(inst_data_str, addresses) ==
    IF IsDecimal(inst_data_str) THEN [ ok |-> TRUE, inst_data |-> IntOf(inst_data_str) ]
    ELSE IF inst_data_str \in DOMAIN addresses
    THEN [ ok |-> TRUE, inst_data |-> addresses[inst_data_str] ]
    ELSE [ ok |-> FALSE, inst_data |-> 0 ]

\* lines 143-152: a label's address, else the integer the operand spells
Resolve(inst_data_str, addresses) ==
    IF inst_data_str \in DOMAIN addresses
    THEN [ ok |-> TRUE, inst_data |-> addresses[inst_data_str] ]
    ELSE IF IsDecimal(inst_data_str)
    THEN [ ok |-> TRUE, inst_data |-> IntOf(inst_data_str) ]
    ELSE [ ok |-> FALSE, inst_data |-> 0 ]

\* lines 139-162: the error of the first operand that does not resolve, or
\* the list of Instructions
Convert(sequence_processed, addresses) ==
    IF \E k \in 1..Len(sequence_processed) :
          ~Resolve(sequence_processed[k].inst_data_str, addresses).ok
    THEN [ error |-> Raised("Invalid inst_data",
                            sequence_processed[
                                CHOOSE k \in 1..Len(sequence_processed) :
                                    /\ ~Resolve(sequence_processed[k].inst_data_str,
                                                addresses).ok
                                    /\ \A j \in 1..(k - 1) :
                                          Resolve(sequence_processed[j].inst_data_str,
                                                  addresses).ok ].line_number),
           instructions |-> << >> ]
    ELSE [ error |-> NoError,
           instructions |->
               [ k \in 1..Len(sequence_processed) |->
                   Instruction(sequence_processed[k].flags,
                               sequence_processed[k].duration,
                               sequence_processed[k].opcode,
                               Resolve(sequence_processed[k].inst_data_str,
                                       addresses).inst_data) ] ]

\* lines 122-162 on the outcome of the scan
AfterScan(scan) ==
    IF scan.error # NoError THEN [ error |-> scan.error, instructions |-> << >> ]
    ELSE IF MatchLoops(scan.sequence_processed, 0, << >>).error # NoError
    THEN [ error |-> MatchLoops(scan.sequence_processed, 0, << >>).error,
           instructions |-> << >> ]
    ELSE Convert(MatchLoops(scan.sequence_processed, 0, << >>).sequence_processed,
                 scan.addresses)

\* code_to_instructions up to the construction of the InstructionSequence:
\* the error raised, or the list of Instructions
code_to_instructions(text, nr_flags) ==
    IF nr_flags <= 0 THEN [ error |-> Raised("nr_flags must be positive", None),
                            instructions |-> << >> ]
    ELSE AfterScan(Scan(text, 1, NoAddresses, << >>, nr_flags))

-----------------------------------------------------------------------------
(* The texts the parser is run on: up to MaxLines lines, each one of       *)
(*                                                                         *)
(*     (blank)                          // a comment                       *)
(*     a: 0b01, 10ns                    0b10, 10ns, JSR, a  // call        *)
(*     0b01, 10ns, RTS                  0b11, 1.5us, loop, 2               *)
(*     0b00, 10ns, END_LOOP, a          0: 0b01, 10NS, Stop                *)
(*     0x3, 1Ms, BRANCH, 0              0b01, 0.5ns                        *)
(*     0b01, 10m, WAIT                  0b1...1, 10ns  (nr_flags + 1 ones) *)

TextLines ==
    { BlankLine,
      CommentLine,
      Line(FlagsField(TRUE, "a", "0b", << 0, 1 >>), DurationField(10, 1, "ns"),
           "", "", 2, FALSE),
      Line(FlagsField(FALSE, "", "0b", << 1, 0 >>), DurationField(10, 1, "ns"),
           "JSR", "a", 4, TRUE),
      Line(FlagsField(FALSE, "", "0b", << 0, 1 >>), DurationField(10, 1, "ns"),
           "RTS", "", 3, FALSE),
      Line(FlagsField(FALSE, "", "0b", << 1, 1 >>), DurationField(15, 10, "us"),
           "loop", "2", 4, FALSE),
      Line(FlagsField(FALSE, "", "0b", << 0, 0 >>), DurationField(10, 1, "ns"),
           "END_LOOP", "a", 4, FALSE),
      Line(FlagsField(TRUE, "0", "0b", << 0, 1 >>), DurationField(10, 1, "NS"),
           "Stop", "", 3, FALSE),
      Line(FlagsField(FALSE, "", "0x", << 3 >>), DurationField(1, 1, "Ms"),
           "BRANCH", "0", 4, FALSE),
      Line(FlagsField(FALSE, "", "0b", << 0, 1 >>), DurationField(5, 10, "ns"),
           "", "", 2, FALSE),
      Line(FlagsField(FALSE, "", "0b", << 0, 1 >>), DurationField(10, 1, "m"),
           "WAIT", "", 3, FALSE),
      Line(FlagsField(FALSE, "", "0b", [ i \in 1..(NrFlags + 1) |-> 1 ]),
           DurationField(10, 1, "ns"), "", "", 2, FALSE) }

ParseInit ==
    /\ mode = "parse"
    /\ DeviceIdle
    /\ GenIdle
    /\ \E n \in 0..MaxLines : code \in [ 1..n -> TextLines ]
    /\ instructions = << >>
    /\ idx = 0
    /\ _duration = << >>
    /\ _flags = << >>
    /\ _addresses = << >>
    /\ subroutines = << >>
    /\ loops = << >>
    /\ branch_index = None
    /\ status = "idle"
    /\ error = NoError

\* code_to_instructions up to the point where InstructionSequence's
\* __post_init__ enters the unroller's loop: a parse error, an empty list
\* (which the unroller refuses), or a list to unroll
ParseCall ==
    /\ mode = "parse"
    /\ status = "idle"
    /\ \E parsed \in { code_to_instructions(code, NrFlags) } :
          IF parsed.error # NoError
          THEN /\ status' = "raised"
               /\ error' = parsed.error
               /\ UNCHANGED instructions
          ELSE /\ instructions' = parsed.instructions
               /\ status' = IF Len(parsed.instructions) = 0 THEN "raised"
                            ELSE "running"
               /\ error' = IF Len(parsed.instructions) = 0
                           THEN Raised("Instruction list cannot be empty", None)
                           ELSE NoError
    /\ UNCHANGED << mode, deviceVars, genVars, code, idx, _duration, _flags, _addresses,
                    subroutines, loops, branch_index >>

ParseNext ==
    \/ ParseCall
    \/ VisitJSR
    \/ VisitRTS
    \/ VisitLOOP
    \/ VisitEND_LOOP
    \/ VisitSTOP
    \/ VisitBRANCH
    \/ VisitPlain
    \/ RunOff

ParseSpec == ParseInit /\ [][ParseNext]_vars

-----------------------------------------------------------------------------
(* The two builders of instruction lists side by side: a behaviour is a    *)
(* call of generate_repeating_pulses or a call of code_to_instructions,    *)
(* each followed by the construction of its InstructionSequence.           *)

BuildSpec == (GenInit \/ ParseInit) /\ [][GenNext \/ ParseNext]_vars

-----------------------------------------------------------------------------
(* PulseBlaster.program (device.py).  Every call of the board's library is *)
(* a step; what the library returns is not in the program's hands, so each *)
(* call may return any of the codes below.                                 *)

clock == 250        \* the board's core clock [MHz]

\* return codes of the library: an error, success, and a positive value
\* (pb_inst_pbonly returns the address of the instruction it wrote)
ReturnCodes == { -1, 0, 1 }

\* the instructions of the lists that are uploaded
DeviceOps == { << "CONTINUE", 0 >>, << "LOOP", 2 >>, << "BRANCH", 0 >> }

\* a device call with its arguments and the code it returned
Call(fn, args, return_code) == [ fn |-> fn, args |-> args, return_code |-> return_code ]

\* a check that takes any return code of an instruction write for success
FailedUnlessWrite(return_code, allow_non_negative) ==
    IF allow_non_negative THEN FALSE ELSE return_code # 0

\* _check_return_code: whether it raises
Failed_(return_code, allow_non_negative) ==
    IF allow_non_negative THEN return_code < 0 ELSE return_code # 0

RECURSIVE _flags_to_int(_)
\* _flags_to_int: bit idx is set for every flag at index idx that is true
_flags_to_int(flags) ==
    IF flags = << >> THEN 0
    ELSE _flags_to_int(Front(flags))
            + (IF Last(flags) # 0 THEN 2 ^ (Len(flags) - 1) ELSE 0)

\* the arguments of pb_inst_pbonly for an instruction
InstArgs(seq) == << _flags_to_int(seq.flags), seq.opcode, seq.inst_data, seq.duration >>

DeviceInit ==
    /\ mode = "device"
    /\ GenIdle
    /\ \E n \in 0..MaxLen : \E ops \in [ 1..n -> DeviceOps ] :
            instructions = Program(ops, n)
    /\ idx = 0
    /\ _duration = << >>
    /\ _flags = << >>
    /\ _addresses = << >>
    /\ subroutines = << >>
    /\ loops = << >>
    /\ branch_index = None
    /\ status = "running"
    /\ code = << >>
    /\ error = NoError
    /\ position = "pb_reset"
    /\ calls = << >>

\* what program leaves alone: it reads the sequence and keeps no state
DeviceFrame ==
    UNCHANGED << mode, genVars, code, instructions, _duration, _flags, _addresses,
                 subroutines, loops, branch_index >>

\* a call made before the try block: its failure is raised at once
Before(fn, args, action, next) ==
    \E return_code \in ReturnCodes :
        /\ calls' = Append(calls, Call(fn, args, return_code))
        /\ IF Failed_(return_code, FALSE)
           THEN /\ status' = "raised"
                /\ error' = Raised(action, None)
                /\ position' = "exit"
           ELSE /\ position' = next
                /\ UNCHANGED << status, error >>

\* line 119
ProgramReset ==
    /\ mode = "device"
    /\ status = "running"
    /\ position = "pb_reset"
    /\ Before("pb_reset", << >>, "Failed to reset PulseBlaster board", "pb_core_clock")
    /\ UNCHANGED idx
    /\ DeviceFrame

\* line 120
ProgramCoreClock ==
    /\ mode = "device"
    /\ status = "running"
    /\ position = "pb_core_clock"
    /\ Before("pb_core_clock", << clock >>, "Failed to set core clock",
              "pb_start_programming")
    /\ UNCHANGED idx
    /\ DeviceFrame

\* line 121
ProgramStart ==
    /\ mode = "device"
    /\ status = "running"
    /\ position = "pb_start_programming"
    /\ Before("pb_start_programming", << "PULSE_PROGRAM" >>,
              "Failed to start pulse programming", "pb_inst_pbonly")
    /\ UNCHANGED idx
    /\ DeviceFrame

\* a try block without its finally clause: the failure leaves program at once
WriteFailedNoFinally == [ position |-> "exit", status |-> "raised" ]

\* lines 123-132: a failure inside the try block is held back while the
\* finally clause runs
WriteFailed == [ position |-> "pb_stop_programming", status |-> "running" ]

\* lines 124-130: one iteration of the loop
ProgramWrite ==
    /\ mode = "device"
    /\ status = "running"
    /\ position = "pb_inst_pbonly"
    /\ idx < Len(instructions)
    /\ \E return_code \in ReturnCodes :
          /\ calls' = Append(calls, Call("pb_inst_pbonly",
                                         InstArgs(At(instructions, idx)), return_code))
          /\ IF Failed_(return_code, TRUE)
             THEN /\ error' = Raised("Failed to write instruction", None)
                  /\ position' = WriteFailed.position
                  /\ status' = WriteFailed.status
                  /\ UNCHANGED idx
             ELSE /\ idx' = idx + 1
                  /\ UNCHANGED << position, status, error >>
    /\ DeviceFrame

\* the loop is over: the try block is left for the finally clause
ProgramWritten ==
    /\ mode = "device"
    /\ status = "running"
    /\ position = "pb_inst_pbonly"
    /\ idx >= Len(instructions)
    /\ position' = "pb_stop_programming"
    /\ UNCHANGED << idx, status, error, calls >>
    /\ DeviceFrame

\* lines 131-132: the finally clause; its own failure replaces the one that
\* is held back, and a failure held back is raised after it
ProgramStop ==
    /\ mode = "device"
    /\ status = "running"
    /\ position = "pb_stop_programming"
    /\ \E return_code \in ReturnCodes :
          /\ calls' = Append(calls, Call("pb_stop_programming", << >>, return_code))
          /\ error' = IF Failed_(return_code, FALSE)
                      THEN Raised("Failed to stop pulse programming", None)
                      ELSE error
          /\ status' = IF Failed_(return_code, FALSE) \/ error # NoError
                       THEN "raised" ELSE "returned"
    /\ position' = "exit"
    /\ UNCHANGED idx
    /\ DeviceFrame

DeviceNext ==
    \/ ProgramReset
    \/ ProgramCoreClock
    \/ ProgramStart
    \/ ProgramWrite
    \/ ProgramWritten
    \/ ProgramStop

DeviceSpec == DeviceInit /\ [][DeviceNext]_vars

\* program is a sequential function and every library call returns: a call
\* that is about to be made is made
DeviceLiveSpec == DeviceSpec /\ WF_vars(DeviceNext)

-----------------------------------------------------------------------------
(* Properties of the unroller.                                             *)

Steps == Len(_addresses)

OpAt(p) == At(instructions, _addresses[p]).opcode

DataAt(p) == At(instructions, _addresses[p]).inst_data

PlainOpcodes == { "CONTINUE", "LONG_DELAY", "WAIT" }

\* a LOOP at address a whose END_LOOP is at b, with only plain instructions between
SimpleLoop(a, b) ==
    /\ InRange(instructions, a) /\ InRange(instructions, b) /\ a < b
    /\ At(instructions, a).opcode = "LOOP"
    /\ At(instructions, a).inst_data >= 1
    /\ At(instructions, b).opcode = "END_LOOP"
    /\ \A k \in (a + 1)..(b - 1) : At(instructions, k).opcode \in PlainOpcodes

\* position p of the timeline enters the loop a..b (it is not a jump back from b)
EntersLoop(p, a, b) ==
    /\ p \in 1..Steps
    /\ _addresses[p] = a
    /\ (p = 1 \/ _addresses[p - 1] # b)

\* the address k steps after entering the loop a..b of n iterations
ExpectedAddress(a, b, n, k) ==
    IF k < n * (b - a + 1) THEN a + (k % (b - a + 1)) ELSE b + 1

\* C3: a LOOP with operand n >= 1 at address a, with its END_LOOP at b > a and
\* only CONTINUE/LONG_DELAY/WAIT between, puts the block a..b in the timeline
\* exactly n consecutive times, each step with its instruction's duration and
\* flags, and then continues at b+1; the unrolling does not end inside the
\* block.  LOOP n / END_LOOP / STOP yields 2*n+1 steps and no branch-back index.
LoopUnrolledFully ==
    /\ \A a \in 0..(Len(instructions) - 1) : \A b \in 0..(Len(instructions) - 1) :
         \A p \in 1..Steps :
           (SimpleLoop(a, b) /\ EntersLoop(p, a, b)) =>
             LET n == At(instructions, a).inst_data
                 size == n * (b - a + 1)
             IN  /\ \A k \in 0..size :
                       (p + k <= Steps) =>
                          /\ _addresses[p + k] = ExpectedAddress(a, b, n, k)
                          /\ _duration[p + k] = At(instructions, _addresses[p + k]).duration
                          /\ _flags[p + k] = At(instructions, _addresses[p + k]).flags
                 /\ (status # "running") =>
                       Steps >= p + size - 1
                                  + (IF InRange(instructions, b + 1) THEN 1 ELSE 0)
    /\ ( /\ Len(instructions) = 3
         /\ At(instructions, 0).opcode = "LOOP" /\ At(instructions, 0).inst_data >= 1
         /\ At(instructions, 1).opcode = "END_LOOP"
         /\ At(instructions, 2).opcode = "STOP"
         /\ status # "running" )
       => /\ status = "returned"
          /\ Len(_duration) = 2 * At(instructions, 0).inst_data + 1
          /\ Len(_flags) = 2 * At(instructions, 0).inst_data + 1
          /\ branch_index = None

\* a loop of at least two iterations with a body has been unrolled to its end
LoopUnrolledWitness ==
    /\ status = "returned"
    /\ \E a \in 0..(Len(instructions) - 1) : \E b \in 0..(Len(instructions) - 1) :
         /\ SimpleLoop(a, b) /\ b > a + 1
         /\ At(instructions, a).inst_data >= 2
         /\ \E p \in 1..Steps :
              /\ EntersLoop(p, a, b)
              /\ Steps >= p + At(instructions, a).inst_data * (b - a + 1) - 1

\* The JSR steps not yet returned from after the first k steps of the timeline,
\* oldest first, as positions of the timeline.
RECURSIVE Pending(_)
Pending(k) ==
    IF k = 0 THEN << >>
    ELSE LET before == Pending(k - 1)
         IN  CASE OpAt(k) = "JSR" /\ InRange(instructions, DataAt(k)) -> Append(before, k)
               [] OpAt(k) = "RTS" /\ before # << >> -> Front(before)
               [] OTHER -> before

\* the address visited after step p, when there is one
NextAddress(p) ==
    IF p < Steps THEN _addresses[p + 1]
    ELSE IF status = "running" THEN idx ELSE None

\* C4: subroutine calls return in LIFO order.  An RTS visited while JSRs are
\* pending is followed by the address after the most recent pending JSR, which
\* comes earlier in the timeline, and that JSR is pending no longer: the return
\* stack is at every step the addresses of the pending JSRs.
ReturnsAreLIFO ==
    /\ \A p \in 1..Steps :
         (OpAt(p) = "RTS" /\ Pending(p - 1) # << >>) =>
            /\ Last(Pending(p - 1)) < p
            /\ (p < Steps \/ status = "running") =>
                  NextAddress(p) = _addresses[Last(Pending(p - 1))] + 1
            /\ Pending(p) = Front(Pending(p - 1))
    /\ (status = "running") =>
          subroutines = [ i \in 1..Len(Pending(Steps)) |-> _addresses[Pending(Steps)[i]] ]

\* an RTS returned while two JSRs were pending
ReturnsAreLIFOWitness ==
    \E p \in 1..Steps :
        /\ OpAt(p) = "RTS"
        /\ Len(Pending(p - 1)) >= 2
        /\ p < Steps

\* C5: unrolling ends at the first STOP or BRANCH visited, which is the last
\* entry of the timeline.  After STOP the branch-back index is None; after
\* BRANCH with operand t it is the first position of the timeline (the
\* BRANCH's own step included) whose address is t, or None if there is none.
EndsAtStopOrBranch ==
    /\ \A p \in 1..Steps :
         (OpAt(p) \in { "STOP", "BRANCH" }) => (p = Steps /\ status = "returned")
    /\ (Steps > 0 /\ OpAt(Steps) = "STOP") => branch_index = None
    /\ (Steps > 0 /\ OpAt(Steps) = "BRANCH") =>
          IF \E q \in 1..Steps : _addresses[q] = DataAt(Steps)
          THEN /\ branch_index \in 0..(Steps - 1)
               /\ _addresses[branch_index + 1] = DataAt(Steps)
               /\ \A q \in 1..branch_index : _addresses[q] # DataAt(Steps)
          ELSE branch_index = None
    /\ (Steps = 0 \/ OpAt(Steps) # "BRANCH") => branch_index = None

\* unrolling ended at a BRANCH to itself, some steps into the timeline
EndsAtBranchWitness ==
    /\ status = "returned"
    /\ Steps >= 2
    /\ OpAt(Steps) = "BRANCH"
    /\ DataAt(Steps) = _addresses[Steps]
    /\ branch_index = Steps - 1

\* C6: at every step of unrolling the duration array and the flags array have
\* the same length, one entry per visited instruction, and the branch-back
\* index, when present, is a position of those arrays.
ArraysAligned ==
    /\ Len(_duration) = Len(_flags)
    /\ Len(_duration) = Len(_addresses)
    /\ (branch_index # None) => (0 <= branch_index /\ branch_index < Len(_duration))

\* a returned timeline of several steps with a branch-back index
ArraysAlignedWitness ==
    /\ status = "returned"
    /\ Len(_duration) >= 3
    /\ branch_index # None
    /\ branch_index >= 1

\* the instruction about to be visited makes the unroller fail
MustFail ==
    LET ins == At(instructions, idx)
    IN  \/ ins.opcode = "RTS" /\ subroutines = << >>
        \/ ins.opcode = "END_LOOP" /\ loops = << >>
        \/ ins.opcode = "LOOP" /\ ins.inst_data <= 0
        \/ ins.opcode = "JSR" /\ ~InRange(instructions, ins.inst_data)

\* C7: visiting an RTS with an empty return stack, an END_LOOP with an empty
\* loop-frame stack, a LOOP with operand <= 0 or a JSR with an operand outside
\* 0..len-1 makes the unroller raise, and nothing is returned afterwards; a
\* step that does not raise leaves the stacks popped only when they were not
\* empty and never jumps to a JSR target out of range.
ControlFlowErrorsRaise ==
    [][ /\ (status = "running" /\ InRange(instructions, idx)) =>
              /\ MustFail => status' = "raised"
              /\ (At(instructions, idx).opcode = "JSR" /\ status' = "running") =>
                    InRange(instructions, idx')
              /\ (At(instructions, idx).opcode = "RTS" /\ status' = "running") =>
                    Len(subroutines) = Len(subroutines') + 1
              /\ (At(instructions, idx).opcode = "END_LOOP" /\ status' = "running") =>
                    Len(loops) >= 1
        /\ (status = "raised") => status' = "raised"
      ]_vars

\* the unroller raised at an RTS, with nothing on the return stack, after a
\* subroutine call had returned
ControlFlowErrorWitness ==
    /\ status = "raised"
    /\ Steps >= 2
    /\ OpAt(Steps) = "RTS"
    /\ subroutines = << >>
    /\ \E p \in 1..(Steps - 1) : OpAt(p) = "JSR"

\* C8 (as claimed): a visited BRANCH whose operand is outside 0..len-1 makes
\* the unroller raise instead of returning a timeline.
BranchOutOfRangeRaises ==
    (Steps > 0 /\ OpAt(Steps) = "BRANCH" /\ ~InRange(instructions, DataAt(Steps)))
        => status = "raised"


-----------------------------------------------------------------------------
(* Properties of the compiler.                                             *)

\* cycle_count: the synchronized duration in coarsened quanta
CycleCount == duration \div min_instruction_len

\* The reference state of a cycle, from the quantized pulses in closed form.
RefHigh(pulse, cyc) ==
    cyc >= pulse.offset /\ ((cyc - pulse.offset) % pulse.period) < pulse.high

\* the channels of the primary pulses that are active at cycle cyc
RefActive(cyc) ==
    { ch \in 0..(NrChannels - 1) :
        \E i \in 1..Len(pulses_cycle_units) :
            ch \in ChannelSet(pulses_cycle_units[i]) /\ RefHigh(pulses_cycle_units[i], cyc) }

\* the masked channel set at cycle cyc: the signal channels that no started
\* masking pulse takes out
RefMasked(cyc) ==
    { ch \in ChannelsOf(signals) :
        \A i \in 1..Len(masking_pulses_cycle_units) :
            LET m == masking_pulses_cycle_units[i]
            IN  ~( /\ ch \in ChannelSet(m)
                   /\ cyc >= m.offset
                   /\ ((cyc - m.offset) % m.period) >= m.high ) }

IsActiveLow(ch) ==
    \E i \in 1..Len(signals) : ~signals[i].active_high /\ ch \in ChannelSet(signals[i])

\* the bit of a non-reserved channel in the reference state
RefBit(cyc, ch) ==
    IF IsActiveLow(ch)
    THEN (IF ch \in RefActive(cyc) \cap RefMasked(cyc) THEN 0 ELSE 1)
    ELSE (IF ch \in RefActive(cyc) \cap RefMasked(cyc) THEN 1 ELSE 0)

RefState(cyc) ==
    [ k \in 1..NrChannels |->
        IF k <= NrChannels - ReservedChannels
        THEN RefBit(cyc, k - 1)
        ELSE (IF \E ch \in 0..(NrChannels - ReservedChannels - 1) : RefBit(cyc, ch) = 1
              THEN 1 ELSE 0) ]

\* the all-signals-off state
OffBit(ch) == IF IsActiveLow(ch) THEN 1 ELSE 0

OffState ==
    [ k \in 1..NrChannels |->
        IF k <= NrChannels - ReservedChannels
        THEN OffBit(k - 1)
        ELSE (IF \E ch \in 0..(NrChannels - ReservedChannels - 1) : OffBit(ch) = 1
              THEN 1 ELSE 0) ]

RECURSIVE OutputAt(_, _)
\* the flags a straight-line instruction list outputs at a time [ns] from its
\* start (no flags past its end)
OutputAt(instrs, time) ==
    IF instrs = << >> THEN << >>
    ELSE IF time < Head(instrs).duration THEN Head(instrs).flags
    ELSE OutputAt(Tail(instrs), time - Head(instrs).duration)

\* the flags the compiled program outputs during a cycle
ProgramState(cyc) == OutputAt(instructions, cyc * min_instruction_len)

MaskingOn(ch) ==
    { i \in 1..Len(masking_pulses_cycle_units) :
        ch \in ChannelSet(masking_pulses_cycle_units[i]) }

\* C2 (as claimed): for an active-high channel of a primary signal that a
\* masking signal names, in every simulated cycle at or after the masking
\* signal's offset the compiled output on the channel is 0 while the masking
\* pulse is in its high window and the primary signal's own state outside it.
MaskingBlocksWhileHigh ==
    (pc = "done") =>
        \A ch \in 0..(NrChannels - ReservedChannels - 1) :
          \A i \in MaskingOn(ch) :
            \A cyc \in 0..(nr_cycles - 1) :
              LET m == masking_pulses_cycle_units[i]
              IN  (/\ MaskingOn(ch) = { i }
                   /\ ~IsActiveLow(ch)
                   /\ cyc >= m.offset) =>
                      ProgramState(cyc)[ch + 1] =
                          IF ((cyc - m.offset) % m.period) < m.high
                          THEN 0
                          ELSE (IF ch \in RefActive(cyc) THEN 1 ELSE 0)

\* C9: a compiled program is zero or more CONTINUE instructions with operand
\* 0 followed by exactly one BRANCH with operand 0, the last instruction, whose
\* flags are the all-signals-off state: 1 on the channels of active-low
\* signals, 0 on the other non-reserved channels, reserved channels mirrored.
ProgramShape ==
    (pc = "done") =>
        /\ Len(instructions) >= 1
        /\ \A i \in 1..(Len(instructions) - 1) :
              instructions[i].opcode = "CONTINUE" /\ instructions[i].inst_data = 0
        /\ Last(instructions).opcode = "BRANCH"
        /\ Last(instructions).inst_data = 0
        /\ Last(instructions).flags = OffState

\* a compiled program with an active-low and an active-high signal on
\* different channels
ProgramShapeWitness ==
    /\ pc = "done"
    /\ Len(instructions) >= 3
    /\ \E i \in 1..Len(signals) : \E j \in 1..Len(signals) :
          /\ ~signals[i].active_high
          /\ signals[j].active_high
          /\ ChannelSet(signals[i]) \cap ChannelSet(signals[j]) = {}

\* the simulated cycles at which a run starts: cycle 0 and every cycle whose
\* state differs from the state of the cycle before it
RunStarts(n) == { k \in 0..(n - 1) : k = 0 \/ RefState(k) # RefState(k - 1) }

\* the position in the list of the run that starts at cycle k
RunIndex(starts, k) == Cardinality({ j \in starts : j <= k })

\* the cycle after the last cycle of the run that starts at cycle k
RunEnd(starts, n, k) ==
    CHOOSE e \in (starts \cup { n }) :
        e > k /\ \A j \in (starts \cup { n }) : j > k => e <= j

\* C10: run-length compression.  No two adjacent entries of c (adjacent
\* CONTINUE instructions) are equal; the list has one entry per run of
\* consecutive simulated cycles with the same state, whose flags are that state
\* and whose duration is the coarsened quantum times the number of cycles of
\* the run; the CONTINUE instructions of the program are these entries.
RunLengthCompressed ==
    (pc = "done") =>
        /\ Len(t) = Len(c)
        /\ \A i \in 1..(Len(c) - 1) : c[i] # c[i + 1]
        /\ \E starts \in { RunStarts(instruction_cycle) } :
              /\ Len(t) = Cardinality(starts)
              /\ \A k \in starts :
                    /\ c[RunIndex(starts, k)] = RefState(k)
                    /\ t[RunIndex(starts, k)] =
                          min_instruction_len * (RunEnd(starts, instruction_cycle, k) - k)
        /\ Len(instructions) = Len(t) + 1
        /\ \A i \in 1..Len(t) :
              /\ instructions[i].opcode = "CONTINUE"
              /\ instructions[i].duration = t[i]
              /\ instructions[i].flags = c[i]

\* a compiled program with a run of several cycles among several runs
RunLengthWitness ==
    /\ pc = "done"
    /\ Len(t) >= 3
    /\ \E i \in 1..Len(t) : t[i] >= 3 * min_instruction_len
    /\ \E i \in 1..Len(t) : t[i] = min_instruction_len

\* the positions of the non-reserved and of the reserved channels in the flags
ControllablePositions == 1..(NrChannels - ReservedChannels)

ReservedPositions == (NrChannels - ReservedChannels + 1)..NrChannels

\* C11: in every instruction of a compiled program, the terminal BRANCH
\* included, each reserved channel bit is 1 if and only if at least one
\* non-reserved channel bit of the same instruction is 1.
ReservedMirrors ==
    (pc = "done") =>
        \A i \in 1..Len(instructions) : \A k \in ReservedPositions :
            /\ instructions[i].flags[k] \in { 0, 1 }
            /\ (instructions[i].flags[k] = 1)
                  <=> (\E j \in ControllablePositions : instructions[i].flags[j] = 1)

\* a compiled program whose terminal instruction has its reserved channels
\* high (an active-low signal is off) and one of whose CONTINUE instructions
\* has them low
ReservedMirrorsWitness ==
    /\ pc = "done"
    /\ ReservedChannels > 0
    /\ \A k \in ReservedPositions : Last(instructions).flags[k] = 1
    /\ \E i \in 1..(Len(instructions) - 1) :
          \A k \in ReservedPositions : instructions[i].flags[k] = 0

RECURSIVE StartOf(_, _)
\* the time [ns] at which instruction i of a straight-line list starts
StartOf(instrs, i) ==
    IF i <= 1 THEN 0 ELSE StartOf(instrs, i - 1) + instrs[i - 1].duration

\* the cycles instruction i of the compiled program covers
CoveredCycles(i) ==
    { cyc \in 0..(CycleCount - 1) :
        /\ StartOf(instructions, i) <= cyc * min_instruction_len
        /\ cyc * min_instruction_len < StartOf(instructions, i) + instructions[i].duration }

\* the gated active value of a channel in a cycle: active, and in the masked set
Gated(cyc, ch) == IF ch \in RefActive(cyc) /\ ch \in RefMasked(cyc) THEN 1 ELSE 0

\* C12: for a channel of an active-low signal, the bit in every CONTINUE
\* instruction is the complement of the channel's gated active value in each
\* cycle the instruction covers, and the bit in the terminal instruction is 1;
\* for a channel of active-high signals only, the bit is the gated active value
\* and is 0 in the terminal instruction.
ActiveLowInverted ==
    (pc = "done") =>
        \A ch \in ChannelsOf(signals) :
            /\ \A i \in 1..(Len(instructions) - 1) : \A cyc \in CoveredCycles(i) :
                  instructions[i].flags[ch + 1] =
                      IF IsActiveLow(ch) THEN 1 - Gated(cyc, ch) ELSE Gated(cyc, ch)
            /\ Last(instructions).flags[ch + 1] = IF IsActiveLow(ch) THEN 1 ELSE 0

\* a compiled program with an active-low channel that is driven (bit 0) in some
\* covered cycle and an active-high channel that is driven (bit 1) in another
ActiveLowInvertedWitness ==
    /\ pc = "done"
    /\ \E ch \in ChannelsOf(signals) : \E i \in 1..(Len(instructions) - 1) :
          /\ IsActiveLow(ch)
          /\ CoveredCycles(i) # {}
          /\ instructions[i].flags[ch + 1] = 0
    /\ \E ch \in ChannelsOf(signals) : \E i \in 1..(Len(instructions) - 1) :
          /\ ~IsActiveLow(ch)
          /\ CoveredCycles(i) # {}
          /\ instructions[i].flags[ch + 1] = 1

\* a channel of a primary or masking signal is beyond the controllable range
ChannelOutOfRange ==
    \E i \in 1..Len(signals \o masking_signals) :
        \E k \in 1..Len((signals \o masking_signals)[i].channels) :
            (signals \o masking_signals)[i].channels[k] > NrChannels - ReservedChannels - 1

\* a channel of a masking signal is a channel of no primary signal
MaskingOffPrimary ==
    \E i \in 1..Len(masking_signals) : \E k \in 1..Len(masking_signals[i].channels) :
        \A j \in 1..Len(signals) : \A l \in 1..Len(signals[j].channels) :
            masking_signals[i].channels[k] # signals[j].channels[l]

\* C18: generate_repeating_pulses fails and returns no program whenever a
\* channel of a primary or masking signal is greater than nr_channels -
\* reserved_channels - 1, or a masking channel is a channel of no primary
\* signal; in every compiled program no signal channel is a reserved channel
\* position.
TopologyErrorsRaise ==
    (mode = "gen" /\ pc # "call") =>
        /\ (ChannelOutOfRange \/ MaskingOffPrimary) =>
              (pc = "raised" /\ instructions = << >> /\ status = "idle")
        /\ (pc = "done") =>
              \A i \in 1..Len(signals \o masking_signals) :
                  \A k \in 1..Len((signals \o masking_signals)[i].channels) :
                      ((signals \o masking_signals)[i].channels[k] + 1) \in ControllablePositions

\* a call has raised whose only fault is a primary signal on the first
\* reserved channel
TopologyErrorsWitness ==
    /\ mode = "gen"
    /\ pc = "raised"
    /\ Len(signals) > 0
    /\ ChannelOutOfRange
    /\ ~MaskingOffPrimary
    /\ ~minimum_duration_and_num_cycles(signals, masking_signals, min_instruction_len).raised

\* the call compiled a single active-high signal with duty cycle 0.5 and no
\* offset, and no masking signal
SingleHalfDuty ==
    /\ mode = "gen"
    /\ pc = "done"
    /\ Len(signals) = 1
    /\ masking_signals = << >>
    /\ signals[1].offset = 0
    /\ signals[1]._duty_cycle_set
    /\ 2 * signals[1].duty_num = signals[1].duty_den
    /\ signals[1].active_high

\* the durations of the instructions before the terminal BRANCH, summed
PreBranchDuration == StartOf(instructions, Len(instructions))

\* the instructions during which the single signal's channel is high
HighInstructions ==
    { i \in 1..Len(instructions) : instructions[i].flags[signals[1].channels[1] + 1] = 1 }

\* the high instructions are one contiguous run
OneHighRun ==
    /\ HighInstructions # {}
    /\ \A i, j \in HighInstructions : \A k \in i..j : k \in HighInstructions

\* the length [ns] of the high run
HighRunDuration ==
    LET first == CHOOSE i \in HighInstructions : \A j \in HighInstructions : i <= j
        last == CHOOSE i \in HighInstructions : \A j \in HighInstructions : j <= i
    IN  StartOf(instructions, last) + instructions[last].duration
            - StartOf(instructions, first)

\* d is a multiple of n that is nearest to value
NearestMultiple(d, value, n) ==
    /\ d % n = 0
    /\ 2 * d <= 2 * value + n
    /\ 2 * value <= 2 * d + n

\* a and b differ by at most d
Within(a, b, d) == a <= b + d /\ b <= a + d

FineTicks == duration \div QuantumNs

\* the channels of the primary pulses units that are active at a tick
FineActive(units, tick) ==
    { ch \in 0..(NrChannels - 1) :
        \E i \in 1..Len(units) : ch \in ChannelSet(units[i]) /\ RefHigh(units[i], tick) }

\* the masked channel set at a tick, by the masking pulses munits
FineMasked(munits, tick) ==
    { ch \in ChannelsOf(signals) :
        \A i \in 1..Len(munits) :
            ~( /\ ch \in ChannelSet(munits[i])
               /\ tick >= munits[i].offset
               /\ ((tick - munits[i].offset) % munits[i].period) >= munits[i].high ) }

FineState(units, munits, tick) ==
    IF tick = FineTicks - 1 THEN OffState
    ELSE ChannelState(FineActive(units, tick) \cap FineMasked(munits, tick),
                      ActiveLowChannels(signals), NrChannels, ReservedChannels)

\* C17 (as claimed): for every accepted input, at each original-quantum tick
\* from 0 to the total duration the compiled program outputs the state that
\* the program compiled with no coarsening outputs; coarsening changes the
\* number of simulated cycles only.
CoarseningKeepsTimeline ==
    (mode = "gen" /\ pc = "done") =>
        \A units \in { ConvertSignals(signals, OwnPeriods(frequencies_rescaled, signals),
                                      QuantumNs) } :
        \A munits \in { ConvertSignals(masking_signals,
                                       MaskingPeriods(frequencies_rescaled, masking_signals),
                                       QuantumNs) } :
            \A tick \in 0..(FineTicks - 1) :
                OutputAt(instructions, tick * QuantumNs) = FineState(units, munits, tick)

-----------------------------------------------------------------------------
(* Properties of Signal construction.                                      *)

\* what the claim takes for "the effective high time is >= the period": the
\* given high time, or period x duty cycle when the high time is given as 0
ClaimedHighReachesPeriod(args) ==
    IF args.high = 0 THEN args.duty_num >= args.duty_den
    ELSE PeriodAtMost(args.frequency, args.high)

ClaimedInvalid(args) ==
    \/ args.frequency <= 0
    \/ args.offset < 0
    \/ args.high < 0
    \/ \E k \in 1..Len(args.channels) : args.channels[k] < 0
    \/ args.channels = << >>
    \/ args.duty_num < 0
    \/ args.duty_num > args.duty_den
    \/ ClaimedHighReachesPeriod(args)

\* C19 (as claimed): construction fails, leaving no Signal, if and only if
\* frequency <= 0, or offset < 0, or the given high time < 0, or a channel
\* < 0, or there is no channel, or the duty cycle is outside [0, 1], or the
\* effective high time (the given one, or period x duty cycle when it is given
\* as 0) is >= the period; a constructed Signal has high time < period.
ConstructionFailsIff ==
    [][ (pc = "init" /\ pc' # "init") =>
            /\ (pc' = "raised" /\ signals' = << >>)
                  <=> (\E i \in 1..Len(signals) : ClaimedInvalid(signals[i]))
            /\ (pc' = "constructed") =>
                  \A i \in 1..Len(signals') :
                      ~PeriodAtMost(signals'[i].frequency, signals'[i].high) ]_vars

-----------------------------------------------------------------------------
(* Properties of the synchronizer.                                         *)

\* the synchronizer has returned
Synced == mode = "sync" /\ pc \in { "synced", "quantized" }

\* C13 (as claimed): whenever minimum_duration_and_num_cycles succeeds, every
\* returned rescaled period (primary and masking) is a whole number of quanta
\* and divides the returned duration exactly, in the integer-multiple case as
\* well as in the least-common-multiple case.
RescaledPeriodsDivideDuration ==
    Synced =>
        \A i \in 1..Len(frequencies_rescaled) :
            /\ frequencies_rescaled[i] % min_instruction_len = 0
            /\ duration % frequencies_rescaled[i] = 0

\* the frequencies the synchronizer was called with [Hz / FrequencyDen]
InputFrequencies == FrequenciesOf(signals, masking_signals)

\* every frequency, rounded to n_digits decimals, is an exact integer
\* multiple of the slowest one
AllMultiplesOfSlowest(frequencies) ==
    /\ frequencies # << >>
    /\ \A i \in 1..Len(frequencies) :
          ScaledFrequency(frequencies[i]) % ScaledFrequency(MinAll(frequencies)) = 0

\* the synchronizer was called with 10 Hz and 20 Hz, in some order and number
TenAndTwentyHz ==
    /\ { InputFrequencies[i] : i \in 1..Len(InputFrequencies) }
          = { 10 * FrequencyDen, 20 * FrequencyDen }

RoundedPeriods ==
    LcmCasePeriods(InputFrequencies, min_instruction_len, n_round * min_instruction_len)

\* a time of k units of ns_round is more than t_max
ExceedsTMax(k, ns_round) ==
    \/ WholeSeconds(k, ns_round) > t_max_seconds
    \/ /\ WholeSeconds(k, ns_round) = t_max_seconds
       /\ (k * (ns_round \div Gcd(ns_round, NsPerSecond)))
              % (NsPerSecond \div Gcd(ns_round, NsPerSecond)) # 0

\* C15 (as claimed): when the frequencies are not all integer multiples of
\* the slowest one, minimum_duration_and_num_cycles fails exactly when the
\* least common multiple L of the rounded periods is more than t_max, and
\* otherwise succeeds with duration L and those periods.
LcmCaseFailsIffOverTMax ==
    (mode = "sync" /\ pc \in { "synced", "quantized", "sync_raised" }
                   /\ InputFrequencies # << >>
                   /\ ~AllMultiplesOfSlowest(InputFrequencies)) =>
        /\ (pc = "sync_raised")
              <=> ExceedsTMax(LcmRounds(RoundedPeriods, n_round * min_instruction_len),
                              n_round * min_instruction_len)
        /\ (pc # "sync_raised") =>
              /\ duration = LcmAll(RoundedPeriods)
              /\ frequencies_rescaled = RoundedPeriods

-----------------------------------------------------------------------------
(* Properties of the authority mark.                                       *)

\* the signals given to the compiler, primary then masking
AllSignals == signals \o masking_signals

\* the pulses of the quantizer, primary then masking
AllPulses == pulses_cycle_units \o masking_pulses_cycle_units

\* the rescaled period that goes with each of AllSignals
AllPeriods ==
    OwnPeriods(frequencies_rescaled, signals)
        \o MaskingPeriods(frequencies_rescaled, masking_signals)

\* construction marks a signal by whether its high time was given as 0, and
\* keeps a given high time
MarkedAtConstruction ==
    /\ Len(AllSignals') = Len(AllSignals)
    /\ \A i \in 1..Len(AllSignals) :
          /\ AllSignals'[i]._duty_cycle_set = (AllSignals[i].high = 0)
          /\ AllSignals[i].high > 0 => AllSignals'[i].high = AllSignals[i].high

\* the high of a quantized pulse: from the quantized rescaled period and the
\* duty cycle, or from the signal's own high time
HighFromAuthority ==
    /\ Len(AllPulses') = Len(AllSignals)
    /\ \A i \in 1..Len(AllSignals) :
          AllPulses'[i].high =
              IF AllSignals[i]._duty_cycle_set
              THEN Round(Round(AllPeriods[i], min_instruction_len) * AllSignals[i].duty_num,
                         AllSignals[i].duty_den)
              ELSE Round(AllSignals[i].high, min_instruction_len)

\* C20: a Signal constructed with high time 0 is marked duty-cycle-
\* authoritative and one with high time > 0 high-authoritative; the signal,
\* mark included, is the same after synchronization and quantization; the
\* quantized pulse's high is round(quantized rescaled period x duty cycle)
\* for the former and round(original high time / quantum) for the latter.
AuthorityMarkDecidesHigh ==
    [][ /\ (pc = "init" /\ pc' = "constructed") => MarkedAtConstruction
        /\ (pc \in { "constructed", "synced" }) => AllSignals' = AllSignals
        /\ (pc = "synced" /\ pc' = "quantized") => HighFromAuthority ]_vars

\* signals of both kinds have been quantized at a period that is not the
\* period of the frequency they were constructed with
AuthorityMarkWitness ==
    /\ mode = "sync"
    /\ pc = "quantized"
    /\ \E i, j \in 1..Len(AllSignals) :
          /\ AllSignals[i]._duty_cycle_set
          /\ ~AllSignals[j]._duty_cycle_set
          /\ AllPeriods[i] # PeriodRound(AllSignals[i].frequency)
          /\ AllPeriods[j] # PeriodRound(AllSignals[j].frequency)
          /\ AllPulses[i].high # Round(AllSignals[i].high, min_instruction_len)

-----------------------------------------------------------------------------
(* Properties of the caller's inputs.                                      *)

\* the compiler is past its caller's construction of the signals
InCompiler == pc \in { "call", "cycles", "done", "constructed", "synced" }

-----------------------------------------------------------------------------
(* Properties of the parser.                                               *)

\* code_to_instructions has built its list of Instructions
Built == mode = "parse" /\ instructions # << >>

\* code_to_instructions has returned an InstructionSequence
Accepted == mode = "parse" /\ status = "returned"

\* line n of the text holds an instruction
InstructionLine(n) == n \in 1..Len(code) /\ code[n].nfields # 0

InstructionLines == { n \in 1..Len(code) : InstructionLine(n) }

\* the number of instruction lines before line n
AddressOfLine(n) == Cardinality({ m \in InstructionLines : m < n })

\* the instruction that line n was turned into
InstructionOfLine(n) == At(instructions, AddressOfLine(n))

OpcodeOfLine(n) == IF code[n].nfields > 2 THEN Upper(code[n].opcode) ELSE "CONTINUE"

\* the labels of the text, and the line that carries a label
Labels == { code[m].first.label : m \in { k \in InstructionLines : code[k].first.colon } }

LineOfLabel(label) ==
    CHOOSE m \in InstructionLines : code[m].first.colon /\ code[m].first.label = label

\* line n has an operand written on it that names a label of the text
NamesLabel(n) == InstructionLine(n) /\ code[n].nfields = 4 /\ code[n].operand \in Labels

\* every instruction line, and no other line, takes the next address
AddressesCountInstructionLines ==
    /\ Len(instructions) = Cardinality(InstructionLines)
    /\ \A n \in InstructionLines :
          /\ InstructionOfLine(n).opcode = OpcodeOfLine(n)
          /\ InstructionOfLine(n).flags = FlagBits(FlagsValue(code[n].first), NrFlags)

\* the operand of line n is the address of the instruction that carries the
\* label the line names
ResolvesToLabel(n) ==
    InstructionOfLine(n).inst_data = AddressOfLine(LineOfLabel(code[n].operand))

\* C22, as stated: an instruction's address is the number of instruction
\* lines before it, and every operand that names a label is the address of
\* the instruction carrying the label.
LabelOperandsResolve ==
    Built => /\ AddressesCountInstructionLines
             /\ \A n \in InstructionLines : NamesLabel(n) => ResolvesToLabel(n)

\* C22, amended: an instruction's address is the number of instruction lines
\* before it, and on every line but an END_LOOP line an operand that names a
\* label is the address of the instruction carrying the label, whether the
\* label is defined before or after the line.
LabelOperandsResolveButEndLoop ==
    Built => /\ AddressesCountInstructionLines
             /\ \A n \in InstructionLines :
                   (NamesLabel(n) /\ OpcodeOfLine(n) # "END_LOOP") => ResolvesToLabel(n)

\* a text is parsed in which a blank or comment-only line comes before an
\* instruction, one line names a label defined after it and another a label
\* defined before it
LabelOperandsWitness ==
    /\ Built
    /\ \E n \in InstructionLines : AddressOfLine(n) # n - 1
    /\ \E n \in InstructionLines :
          NamesLabel(n) /\ OpcodeOfLine(n) # "END_LOOP" /\ LineOfLabel(code[n].operand) > n
    /\ \E n \in InstructionLines :
          NamesLabel(n) /\ OpcodeOfLine(n) # "END_LOOP" /\ LineOfLabel(code[n].operand) < n

RECURSIVE OpenLoops(_)
\* the addresses of the LOOPs that are open before address k, innermost last
OpenLoops(k) ==
    IF k = 0 THEN << >>
    ELSE IF At(instructions, k - 1).opcode = "LOOP"
    THEN Append(OpenLoops(k - 1), k - 1)
    ELSE IF At(instructions, k - 1).opcode = "END_LOOP"
    THEN Front(OpenLoops(k - 1))
    ELSE OpenLoops(k - 1)

EndLoops == { k \in 0..(Len(instructions) - 1) : At(instructions, k).opcode = "END_LOOP" }

\* C23: in the instruction list of an accepted text the operand of every
\* END_LOOP is the address of its matching LOOP, the most recent LOOP not
\* yet closed, whatever labels the text defines and whatever operand is
\* written on the END_LOOP line.
EndLoopOperandIsMatchingLoop ==
    Accepted => \A k \in EndLoops : At(instructions, k).inst_data = Last(OpenLoops(k))

RECURSIVE OpenLoopLines(_)
\* the lines of the LOOPs that are open after line n of the text, innermost
\* last; an END_LOOP that finds none open closes none
OpenLoopLines(n) ==
    IF n = 0 THEN << >>
    ELSE IF ~InstructionLine(n) THEN OpenLoopLines(n - 1)
    ELSE IF OpcodeOfLine(n) = "LOOP" THEN Append(OpenLoopLines(n - 1), n)
    ELSE IF OpcodeOfLine(n) = "END_LOOP" /\ OpenLoopLines(n - 1) # << >>
    THEN Front(OpenLoopLines(n - 1))
    ELSE OpenLoopLines(n - 1)

\* the lines of the END_LOOPs that have no open LOOP before them
UnmatchedEndLoops ==
    { n \in InstructionLines :
        OpcodeOfLine(n) = "END_LOOP" /\ OpenLoopLines(n - 1) = << >> }

\* the lines of the LOOPs that are still open at the end of the text
UnmatchedLoops ==
    { OpenLoopLines(Len(code))[i] : i \in 1..Len(OpenLoopLines(Len(code))) }

\* every line of the text is an instruction the first pass takes
LinesScan == Scan(code, 1, NoAddresses, << >>, NrFlags).error = NoError

OpenLoopWitness ==
    /\ mode = "parse"
    /\ status = "raised"
    /\ \E n \in InstructionLines : OpcodeOfLine(n) = "END_LOOP"
    /\ UnmatchedLoops # {}
    /\ \E n \in UnmatchedLoops : error = Raised("LOOP without matching END_LOOP", n)

\* the line of the text that the instruction at address a was written on
LineOfAddress(a) == CHOOSE n \in InstructionLines : AddressOfLine(n) = a

\* the unroller is about to execute an RTS while no JSR is waiting for its
\* return
RTSWithoutJSR ==
    /\ mode = "parse"
    /\ status = "running"
    /\ InRange(instructions, idx)
    /\ At(instructions, idx).opcode = "RTS"
    /\ subroutines = << >>

\* C25: when a parsed text executes an RTS with no preceding JSR, the call
\* fails with an error that names the line of that RTS.
RTSErrorNamesLine ==
    [][ RTSWithoutJSR => /\ status' = "raised"
                         /\ error'.line = LineOfAddress(idx) ]_vars

\* the weaker statement that the call fails
RTSWithoutJSRFails == [][ RTSWithoutJSR => status' = "raised" ]_vars

\* C26: the unit of a duration is matched as it is written: a text is
\* turned into instructions only when the unit of every instruction line is
\* exactly one of ns, us, ms and s.
UnitsAreCaseSensitive ==
    Built => \A n \in InstructionLines : code[n].dur.unit \in { "ns", "us", "ms", "s" }

\* the other half of C26, the opcode is matched whatever its case: an
\* instruction line spelling an opcode in lower or mixed case yields it
OpcodesAreCaseInsensitive ==
    Built => \A n \in InstructionLines :
                (code[n].nfields > 2) => InstructionOfLine(n).opcode = Upper(code[n].opcode)

\* C27: every Instruction of a returned InstructionSequence has a strictly
\* positive duration.
ParsedDurationsPositive ==
    Accepted => \A k \in 1..Len(instructions) : instructions[k].duration > 0

-----------------------------------------------------------------------------
(* Properties of the instructions the compiler and the parser build.       *)

\* generate_repeating_pulses has built its program
Generated == mode = "gen" /\ pc = "done"

\* C28: every instruction of a program generate_repeating_pulses returns,
\* the final BRANCH included, has a strictly positive duration that is a
\* whole multiple of the coarsened quantum (the quantum of the call times
\* the greatest common divisor of the cycle counts).
GeneratedDurationsAreQuanta ==
    Generated => /\ min_instruction_len > 0
                 /\ min_instruction_len % QuantumNs = 0
                 /\ \A k \in 1..Len(instructions) :
                       /\ instructions[k].duration > 0
                       /\ instructions[k].duration % min_instruction_len = 0

\* a program is generated whose quantum was coarsened and which holds, before
\* its BRANCH, instructions of one quantum and of more than one
GeneratedDurationsWitness ==
    /\ Generated
    /\ min_instruction_len > QuantumNs
    /\ Last(instructions).opcode = "BRANCH"
    /\ Last(instructions).duration = min_instruction_len
    /\ \E k \in 1..(Len(instructions) - 1) : instructions[k].duration = min_instruction_len
    /\ \E k \in 1..(Len(instructions) - 1) : instructions[k].duration > min_instruction_len

\* every entry of a flags list is a bit
AllBits(flags) == \A i \in 1..Len(flags) : flags[i] \in { 0, 1 }

\* C29: every instruction generate_repeating_pulses builds has a flags list
\* of nr_channels entries, every instruction code_to_instructions builds has
\* one of nr_flags entries, and every entry is 0 or 1.
FlagsAreBitLists ==
    /\ Generated => \A k \in 1..Len(instructions) :
                       /\ Len(instructions[k].flags) = NrChannels
                       /\ AllBits(instructions[k].flags)
    /\ Built => \A k \in 1..Len(instructions) :
                   /\ Len(instructions[k].flags) = NrFlags
                   /\ AllBits(instructions[k].flags)

\* a text is parsed whose flags literals, binary and hexadecimal, set all
\* the bits, some of them and none
ParsedFlagsWitness ==
    /\ Built
    /\ \E n \in InstructionLines : Lower(code[n].first.prefix) = "0x"
    /\ \E k \in 1..Len(instructions) : \A i \in 1..NrFlags : instructions[k].flags[i] = 0
    /\ \E k \in 1..Len(instructions) :
          instructions[k].flags[1] = 1 /\ instructions[k].flags[NrFlags] = 0
    /\ \E k \in 1..Len(instructions) :
          instructions[k].flags[1] = 1 /\ instructions[k].flags[2] = 1

\* a program is generated with instructions in which channels are on, and
\* with a BRANCH
GeneratedFlagsWitness ==
    /\ Generated
    /\ Len(instructions) >= 3
    /\ \E k \in 1..Len(instructions) : \E i \in 1..NrChannels : instructions[k].flags[i] = 1

-----------------------------------------------------------------------------
(* Properties of the upload.                                               *)

\* program has been left, by a return or by an exception
Exited == mode = "device" /\ position = "exit"

\* the board was put into programming mode
StartSucceeded ==
    /\ mode = "device"
    /\ \E i \in 1..Len(calls) :
          calls[i].fn = "pb_start_programming" /\ ~Failed_(calls[i].return_code, FALSE)

StopCalls == { i \in 1..Len(calls) : calls[i].fn = "pb_stop_programming" }

WriteCalls == { i \in 1..Len(calls) : calls[i].fn = "pb_inst_pbonly" }

\* call i did what program asked of it
Succeeded(i) == ~Failed_(calls[i].return_code, calls[i].fn = "pb_inst_pbonly")

\* call i is the call that the order reset, core clock, start programming,
\* the instructions in list order, stop programming puts at its place
InOrder(i) ==
    CASE i = 1 -> calls[i].fn = "pb_reset"
      [] i = 2 -> calls[i].fn = "pb_core_clock" /\ Succeeded(1)
      [] i = 3 -> calls[i].fn = "pb_start_programming" /\ Succeeded(2)
      [] OTHER ->
            /\ Succeeded(3)
            /\ \A j \in 4..(i - 1) : calls[j].fn = "pb_inst_pbonly"
            /\ \A j \in 4..(i - 2) : Succeeded(j)
            /\ \/ /\ calls[i].fn = "pb_inst_pbonly"
                  /\ Succeeded(i - 1)
                  /\ i - 3 <= Len(instructions)
                  /\ calls[i].args = InstArgs(instructions[i - 3])
               \/ /\ calls[i].fn = "pb_stop_programming"
                  /\ (i > 4 /\ Succeeded(i - 1)) => i - 4 = Len(instructions)

\* the calls made so far are in order; once program is left, stop
\* programming was called exactly once, as the last call, if start
\* programming had succeeded, and not at all if it had not; and program
\* returns only after every instruction was written and every call succeeded
CallsInOrder ==
    (mode = "device") =>
        /\ \A i \in 1..Len(calls) : InOrder(i)
        /\ Cardinality(StopCalls) <= 1
        /\ Exited =>
              IF StartSucceeded
              THEN StopCalls = { Len(calls) }
              ELSE StopCalls = {}
        /\ (status = "returned") =>
              /\ Exited
              /\ Cardinality(WriteCalls) = Len(instructions)
              /\ \A i \in 1..Len(calls) : Succeeded(i)

\* C30: program calls the device in the order reset, set core clock, start
\* programming, one write per instruction in list order, stop programming;
\* and once start programming has succeeded program is left, on every path,
\* with stop programming called exactly once, a failed write included.
ProgramCallsInOrderAndStops ==
    /\ []CallsInOrder
    /\ StartSucceeded ~> (Exited /\ StopCalls = { Len(calls) })

\* the second of three writes fails: program is left with the write's error
\* after the first write, the failed one and stop programming
WriteFailsMidUpload ==
    /\ Exited
    /\ status = "raised"
    /\ error = Raised("Failed to write instruction", None)
    /\ Len(instructions) = 3
    /\ Len(calls) = 6
    /\ Succeeded(4)
    /\ calls[5].fn = "pb_inst_pbonly" /\ ~Succeeded(5)
    /\ calls[6] = Call("pb_stop_programming", << >>, 0)

\* every instruction of a list of three is written and program returns
UploadReturns ==
    /\ Exited
    /\ status = "returned"
    /\ Len(instructions) = 3
    /\ Len(calls) = 7

ResetCalls == { i \in 1..Len(calls) : calls[i].fn = "pb_reset" }

\* C31: every execution of program that starts an upload, whether it
\* completes or fails mid-upload, resets the board before the first
\* instruction write and resets it again after the last one.
ResetBeforeAndAfterUpload ==
    (Exited /\ StartSucceeded) =>
        /\ \E i \in ResetCalls : \A j \in WriteCalls : i < j
        /\ \E i \in ResetCalls :
              /\ \A j \in WriteCalls : i > j
              /\ \E k \in 1..(i - 1) : calls[k].fn = "pb_start_programming"

\* the half of C31 that holds: the board is reset before the first write
ResetBeforeUpload ==
    (mode = "device") => \A j \in WriteCalls : \E i \in ResetCalls : i < j

\* the library reported a failure of call i: a negative code of an
\* instruction write, any code but 0 of another call
ReportedFailure(i) ==
    IF calls[i].fn = "pb_inst_pbonly" THEN calls[i].return_code < 0
    ELSE calls[i].return_code # 0

\* C40: when the write of an instruction reports a failure no later
\* instruction is written and program raises; and program returns normally
\* only after reset, clock setup, start programming, the write of every
\* instruction and stop programming all reported success.
WriteFailureEndsUpload ==
    (mode = "device") =>
        /\ \A i \in WriteCalls :
              ReportedFailure(i) => /\ \A j \in WriteCalls : j <= i
                                    /\ status # "returned"
                                    /\ Exited => status = "raised"
        /\ (status = "returned") =>
              /\ \A i \in 1..Len(calls) : ~ReportedFailure(i)
              /\ [ i \in 1..Len(calls) |-> calls[i].fn ]
                    = << "pb_reset", "pb_core_clock", "pb_start_programming" >>
                      \o [ i \in 1..Len(instructions) |-> "pb_inst_pbonly" ]
                      \o << "pb_stop_programming" >>

\* the first write of a list of three fails: the other two instructions are
\* never written and program raises
FirstWriteFails ==
    /\ Exited
    /\ status = "raised"
    /\ Len(instructions) = 3
    /\ Len(calls) = 5
    /\ calls[4].fn = "pb_inst_pbonly" /\ ReportedFailure(4)
    /\ Cardinality(WriteCalls) = 1

-----------------------------------------------------------------------------
(* Properties of the unroller's termination.                               *)

\* the unroller has returned or raised
Terminated == status \in { "returned", "raised" }

\* a list of JSRs with targets in range and of plain instructions that ends
\* with a JSR: control meets no STOP, BRANCH, RTS, LOOP or END_LOOP and
\* cannot run past the last address
NeverLeaves(instrs) ==
    /\ Len(instrs) > 0
    /\ \A k \in 1..Len(instrs) :
          /\ instrs[k].opcode \in { "JSR", "CONTINUE", "LONG_DELAY", "WAIT" }
          /\ (instrs[k].opcode = "JSR") => InRange(instrs, instrs[k].inst_data)
    /\ Last(instrs).opcode = "JSR"

\* C32: there are non-empty lists on which the unroller never terminates
\* and never reports an error: on a list whose every path leads from a JSR
\* to a JSR the loop condition holds, and no error is raised, after every
\* number of iterations.
JSRChainsRunOn ==
    (mode = "unroll" /\ NeverLeaves(instructions)) =>
        /\ status = "running"
        /\ error = NoError
        /\ InRange(instructions, idx)
        /\ Len(subroutines) <= Len(_addresses)

\* such a list has been followed to the model's bound: the same JSR has
\* been visited over and over and every visit has grown the return stack
JSRChainWitness ==
    /\ mode = "unroll"
    /\ NeverLeaves(instructions)
    /\ Len(_addresses) = MaxSteps
    /\ \E i, j \in 1..Len(_addresses) :
          i < j /\ _addresses[i] = _addresses[j]
                /\ At(instructions, _addresses[i]).opcode = "JSR"
    /\ Len(subroutines) >= 2

\* C35: on every non-empty list without a JSR the unroller terminates, with
\* a timeline or with an error, whatever the other opcodes and operands.
TerminatesWithoutJSR ==
    (mode = "unroll" /\ ~HasJSR(instructions)) ~> Terminated

\* a list without a JSR has returned a timeline longer than any that a list
\* with a JSR is followed for, every loop frame popped
LongLoopTerminates ==
    /\ mode = "unroll"
    /\ ~HasJSR(instructions)
    /\ status = "returned"
    /\ Len(_addresses) > MaxSteps
    /\ loops = << >>

\* control has run past the last address
RanOff == status = "returned" /\ ~InRange(instructions, idx)

\* C38: the unroller does not return a timeline when control runs past the
\* last address with a LOOP still open or a JSR not yet returned from.
ReturnsWithEmptyStacks ==
    (mode = "unroll" /\ RanOff) => loops = << >> /\ subroutines = << >>

\* ---------------------------------------------------------------------------
\* Properties of nested loops (NestSpec)
\* ---------------------------------------------------------------------------

\* how often address a has been visited
Visits(a) == Cardinality({ i \in 1..Len(_addresses) : _addresses[i] = a })

\* the LOOPs around address a, outermost first: a LOOP and its END_LOOP belong
\* to their own loop
EnclosingLoops(a) ==
    IF At(instructions, a).opcode = "LOOP" THEN OpenLoops(a + 1) ELSE OpenLoops(a)

RECURSIVE CountProduct(_)
\* the product of the counts of the LOOPs at the addresses of a stack
CountProduct(starts) ==
    IF starts = << >> THEN 1
    ELSE At(instructions, Head(starts)).inst_data * CountProduct(Tail(starts))

\* the addresses of the LOOPs that own the frames of the stack, outermost first
FrameStarts == [ i \in 1..Len(loops) |-> loops[i].idx_start ]

\* the deepest static nesting of the list
StaticDepth ==
    IF instructions = << >> THEN 0
    ELSE CHOOSE d \in 0..Len(instructions) :
            /\ \E a \in 0..(Len(instructions) - 1) : Len(EnclosingLoops(a)) = d
            /\ \A a \in 0..(Len(instructions) - 1) : Len(EnclosingLoops(a)) <= d

\* while the unroller runs, the frames are those of the loops open at the
\* current address, or, back at a LOOP after a jump, those and the LOOP's own
FramesAreOpenLoops ==
    (status = "running" /\ InRange(instructions, idx)) =>
        \/ FrameStarts = OpenLoops(idx)
        \/ /\ At(instructions, idx).opcode = "LOOP"
           /\ FrameStarts = OpenLoops(idx + 1)

\* a returned list has visited every address as often as the counts of the
\* loops around it multiply to
VisitsAreCountProducts ==
    status = "returned" =>
        \A a \in 0..(Len(instructions) - 1) : Visits(a) = CountProduct(EnclosingLoops(a))

\* a LOOP reached from outside its own loop pushes a frame with its full count
FreshFramePushed ==
    (/\ status = "running"
     /\ InRange(instructions, idx)
     /\ At(instructions, idx).opcode = "LOOP"
     /\ FrameStarts = OpenLoops(idx)
     /\ _addresses' # _addresses) =>
        loops' = Append(loops, Loop(idx, At(instructions, idx).inst_data))

\* an END_LOOP takes one iteration off the frame of its matching LOOP, pops it
\* when none is left, and leaves the frames below alone
OwnFrameDecremented ==
    (/\ status = "running"
     /\ InRange(instructions, idx)
     /\ At(instructions, idx).opcode = "END_LOOP"
     /\ _addresses' # _addresses) =>
        /\ loops # << >>
        /\ Last(loops).idx_start = Last(OpenLoops(idx))
        /\ IF Last(loops).iterations_left = 1
           THEN loops' = Front(loops) /\ idx' = idx + 1
           ELSE /\ loops' = Append(Front(loops),
                                   Loop(Last(loops).idx_start, Last(loops).iterations_left - 1))
                /\ idx' = Last(loops).idx_start

\* C34: in a properly nested list without JSR and RTS every address is visited
\* as often as the counts of the loops around it multiply to (n * m for the
\* body of a loop of m inside a loop of n): a LOOP reached from outside pushes
\* a fresh frame with its full count, every END_LOOP decrements the frame of
\* its own matching LOOP, and the frame stack is never deeper than the static
\* nesting
NestedLoopsMultiply ==
    /\ [](FramesAreOpenLoops /\ VisitsAreCountProducts /\ Len(loops) <= StaticDepth)
    /\ [][FreshFramePushed /\ OwnFrameDecremented]_vars

\* a loop of 3 with a body inside a loop of 2 has returned: the body was
\* visited 6 times
NestedBodyVisited ==
    /\ status = "returned"
    /\ Len(instructions) = 5
    /\ [ i \in 1..5 |-> instructions[i].opcode ]
            = << "LOOP", "LOOP", "CONTINUE", "END_LOOP", "END_LOOP" >>
    /\ instructions[1].inst_data = 2
    /\ instructions[2].inst_data = 3
    /\ Visits(2) = 6
    /\ Visits(1) = 6
    /\ Visits(0) = 2

\* ---------------------------------------------------------------------------
\* Properties of the duration ceiling (CeilingSpec)
\* ---------------------------------------------------------------------------

\* a duration [ns] is at most t_max_ms milliseconds
AtMostMillis(dur, t_max_ms) ==
    (dur + (NsPerSecond \div 1000) - 1) \div (NsPerSecond \div 1000) <= t_max_ms

\* C33: a call without a duration that succeeds returns a duration of at most
\* t_max and so at most t_max / quantum cycles, in the integer-multiple case as
\* in the least-common-multiple case
DurationWithinTMax ==
    [][\A t_max_ms \in TMaxMillis :
          (pc = "constructed" /\ CalledWithin(t_max_ms) /\ pc' = "synced") =>
              /\ AtMostMillis(duration', t_max_ms)
              /\ AtMostMillis(nr_cycles' * min_instruction_len, t_max_ms)]_vars

\* the same of the least-common-multiple case alone: there the duration stays
\* below t_max
LcmDurationWithinTMax ==
    [][\A t_max_ms \in TMaxMillis :
          (/\ pc = "constructed"
           /\ CalledWithin(t_max_ms)
           /\ pc' = "synced"
           /\ ~IsMultipleCase(FrequenciesOf(signals, masking_signals))) =>
              AtMostMillis(duration', t_max_ms)]_vars

\* ---------------------------------------------------------------------------
\* Properties of the compiler's InstructionSequence (GenSpec)
\* ---------------------------------------------------------------------------

\* InstructionSequence has unrolled the compiler's list
GeneratedUnrolled == Generated /\ status = "returned"

\* C36: unrolling a program of generate_repeating_pulses visits each
\* instruction once in address order: the duration and flags arrays have
\* len(instructions) entries, entry i is instruction i's duration and flags,
\* and the branch-back index is 0
GeneratedUnrollsInOrder ==
    GeneratedUnrolled =>
        /\ _addresses = [ i \in 1..Len(instructions) |-> i - 1 ]
        /\ Len(_duration) = Len(instructions)
        /\ Len(_flags) = Len(instructions)
        /\ \A i \in 1..Len(instructions) :
              /\ _duration[i] = instructions[i].duration
              /\ _flags[i] = instructions[i].flags
        /\ branch_index = 0

\* a program of four instructions with different neighbours has been unrolled
GeneratedUnrollsWitness ==
    /\ GeneratedUnrolled
    /\ Len(instructions) >= 4
    /\ Len(_duration) = Len(instructions)
    /\ \E i \in 1..(Len(instructions) - 1) : _duration[i] # _duration[i + 1]
    /\ \A i \in 1..(Len(instructions) - 1) : _flags[i] # _flags[i + 1]

\* the durations of all instructions of the list, summed
TotalDuration == StartOf(instructions, Len(instructions) + 1)

\* C37: the durations of the instructions of a program of
\* generate_repeating_pulses, the terminal BRANCH included, sum to the
\* synchronized duration, and the terminal instruction lasts one coarsened
\* quantum
GeneratedLastsDuration ==
    Generated =>
        /\ TotalDuration = duration
        /\ Last(instructions).duration = min_instruction_len
        /\ min_instruction_len % QuantumNs = 0
        /\ (nr_cycles + 1) * min_instruction_len = duration
        /\ TotalDuration - Last(instructions).duration = nr_cycles * min_instruction_len

\* a program of two signals and a masking signal whose quantum was coarsened
\* and whose loop simulated several cycles
GeneratedLastsWitness ==
    /\ Generated
    /\ Len(signals) = 2
    /\ Len(masking_signals) = 1
    /\ min_instruction_len > QuantumNs
    /\ nr_cycles >= 3
    /\ Len(instructions) >= 3
    /\ TotalDuration = duration

\* ---------------------------------------------------------------------------
\* Properties of the flags between parser and driver (ParseSpec)
\* ---------------------------------------------------------------------------

\* the instruction lines whose flags literal does not fit nr_flags bits
OversizedLines ==
    { n \in InstructionLines : FlagsValue(code[n].first) >= 2 ^ NrFlags }

\* code_to_instructions has been called on the text
Parsed == mode = "parse" /\ status # "idle"

\* C39: a flags literal of value v below 2^nr_flags is parsed into the list
\* whose entry i is bit i of v, least significant bit first, and
\* _flags_to_int turns that list back into v; a text with a literal of
\* 2^nr_flags or more is rejected, with the flags error of that line when it
\* is the first line of the text
FlagsRoundTrip ==
    /\ Built =>
          \A n \in InstructionLines :
          \E v \in { FlagsValue(code[n].first) } :
          \E f \in { InstructionOfLine(n).flags } :
             /\ v \in 0..(2 ^ NrFlags - 1)
             /\ Len(f) = NrFlags
             /\ \A i \in 0..(NrFlags - 1) : f[i + 1] = (v \div (2 ^ i)) % 2
             /\ _flags_to_int(f) = v
    /\ (Parsed /\ OversizedLines # {}) =>
          /\ status = "raised"
          /\ error # NoError
          /\ instructions = << >>
    /\ (Parsed /\ 1 \in OversizedLines /\ code[1].nfields = 2 /\ ~code[1].first.colon) =>
          error = Raised("Flags value exceeds nr_flags bits", 1)

\* a text is parsed that holds the literal 0b10: its list is [0, 1] and the
\* driver's integer is 2
FlagsRoundTripWitness ==
    /\ Built
    /\ \E n \in InstructionLines :
          /\ code[n].first.digits = << 1, 0 >>
          /\ InstructionOfLine(n).flags[1] = 0
          /\ InstructionOfLine(n).flags[2] = 1
          /\ _flags_to_int(InstructionOfLine(n).flags) = 2
    /\ \E n \in InstructionLines : Lower(code[n].first.prefix) = "0x"

=============================================================================
